---- MODULE Spec2Model ----
(***************************************************************************)
(* State-machine model of the kiroku-memory engine: the item store, the    *)
(* unit-of-work factory, direct item creation, extraction with conflict    *)
(* resolution, the nightly / weekly / monthly maintenance pipelines and    *)
(* the read paths (list, smart_search, tiered context).                    *)
(*                                                                         *)
(* Confidence values are integers in thousandths (0.9 = 900).  One clock   *)
(* tick is DaysPerTick days.  Every HTTP handler is one action; the weekly *)
(* run that another request overtakes (weekly_run) and the PostToolUse     *)
(* hook processes (hook) take two steps each, a read and a write.          *)
(***************************************************************************)
EXTENDS Integers, Sequences, FiniteSets, TLC

VARIABLES backend, provider, capacity, now, resources, items, edges, embeddings, resp,
          weekly_run, tick_days, hook

vars == <<backend, provider, capacity, now, resources, items, edges, embeddings, resp,
          weekly_run, tick_days, hook>>

\* ---------------------------------------------------------------- bounds
MaxItems == 2
MaxClock == 1
MaxResources == 1
MaxFacts == 1

\* ------------------------------------------------------------- constants
DEFAULT_HALF_LIFE_DAYS == 30
MAX_AGE_DAYS == 90
\* one clock tick is tick_days days, set when the run starts.  LongTick is
\* long enough for an item to pass MAX_AGE_DAYS, ShortTick is one half life;
\* both are multiples of the half life
LongTick == MAX_AGE_DAYS + DEFAULT_HALF_LIFE_DAYS
ShortTick == DEFAULT_HALF_LIFE_DAYS
DaysPerTick == tick_days
OrphanMaxAgeDays == 180
MinConfidence == 100
ArchiveMinConfidence == 200
DecayThreshold == 10
PROPAGATION_STRENGTH == 15
MIN_CHANGE_THRESHOLD == 10
JobListLimit == 10000
RecomputeListLimit == 100000
HotnessThreshold == 7000
LookbackDays == 7
RelatedCap == 10
RelatedStep == 300
BoostAmount == 100
MaxConfidence == 1000
\* hotness is kept in ten-thousandths
HotnessScale == 10 * MaxConfidence
SubjectSideSimilarity == 900
ObjectSideSimilarity == 800
MultiHopSimilarity == 700
DefaultSearchLimit == 10
DefaultEdgeWeight == 1000
MetaConfidence == 1000
CategoryEdgeWeight == 500
ReweightThreshold == 50
DefaultAvgConfidence == 500

NoneStr == "none"
NoId == 0

Backends == {"postgres", "surrealdb"}
Subjects == {"Alice"}
Predicates == {"likes"}
Objects == {"Python", "py"}
\* the object and the confidences of the direct requests, the confidence the
\* extractor reports
DirectObjects == {"Python"}
RequestCategories == {"preferences"}
Confidences == {300, 900}
FactConfidences == {300}
DefaultStrategy == "recency"
FactCategories == {"preferences"}
MetaPredicates == {"has_source"}
MetaObjects == {"conv-01"}
SearchCategories == {NoneStr}
\* the limits of the listings: one row, and the default of GET /search
ListLimits == {1, DefaultSearchLimit}

\* ------------------------------------------------------ entity resolution
\* str.strip().lower() and whitespace collapse, on the strings of the model
normalize_entity(text) ==
  CASE text = "Alice" -> "alice"
    [] text = "Python" -> "python"
    [] OTHER -> text

\* the entries of the alias table whose keys occur in the model
BUILTIN_ALIASES(n) ==
  CASE n = "py" -> "python"
    [] n = "js" -> "javascript"
    [] OTHER -> n

resolve_entity(text) == BUILTIN_ALIASES(normalize_entity(text))

Canon(s) == IF s = NoneStr THEN NoneStr ELSE resolve_entity(s)

\* ---------------------------------------------------------------- helpers
Max(a, b) == IF a >= b THEN a ELSE b
Min(a, b) == IF a <= b THEN a ELSE b
Abs(a) == IF a >= 0 THEN a ELSE 0 - a

RECURSIVE Pow2(_)
Pow2(n) == IF n = 0 THEN 1 ELSE 2 * Pow2(n - 1)

Range(s) == {s[i] : i \in DOMAIN s}

\* every enumeration of the finite set S (the row orders a query without a
\* total ORDER BY may produce)
RowOrders(S) ==
  {s \in [1..Cardinality(S) -> S] : \A i, j \in 1..Cardinality(S) : i # j => s[i] # s[j]}

\* the enumerations of S that are sorted descending by key: what ORDER BY key
\* DESC may return, rows of equal key in any order
SortedOrders(S, key) ==
  {s \in RowOrders(S) : \A i \in 1..(Cardinality(S) - 1) : key[s[i]] >= key[s[i + 1]]}

\* insert x into s (sorted descending by key) after every element whose key is
\* not smaller: the step of a stable descending sort
RECURSIVE InsertDesc(_, _, _)
InsertDesc(key, x, s) ==
  IF s = <<>> THEN <<x>>
  ELSE IF key[Head(s)] >= key[x] THEN <<Head(s)>> \o InsertDesc(key, x, Tail(s))
  ELSE <<x>> \o s

RECURSIVE SortDescAcc(_, _, _)
SortDescAcc(key, s, acc) ==
  IF s = <<>> THEN acc ELSE SortDescAcc(key, Tail(s), InsertDesc(key, Head(s), acc))

\* stable sort of the id sequence s, descending by key (ORDER BY key DESC,
\* sorted(..., reverse=True)); equal keys keep the order they have in s
SortDesc(key, s) == SortDescAcc(key, s, <<>>)

RECURSIVE InsertAsc(_, _, _)
InsertAsc(key, x, s) ==
  IF s = <<>> THEN <<x>>
  ELSE IF key[Head(s)] <= key[x] THEN <<Head(s)>> \o InsertAsc(key, x, Tail(s))
  ELSE <<x>> \o s

RECURSIVE SortAscAcc(_, _, _)
SortAscAcc(key, s, acc) ==
  IF s = <<>> THEN acc ELSE SortAscAcc(key, Tail(s), InsertAsc(key, Head(s), acc))

\* stable sort of the id sequence s, ascending by key
SortAsc(key, s) == SortAscAcc(key, s, <<>>)


Take(s, n) == SubSeq(s, 1, Min(n, Len(s)))

\* the rows f[1], ..., f[n] of a table given as a function, as a sequence
RECURSIVE SeqOf(_, _)
SeqOf(f, n) == IF n = 0 THEN <<>> ELSE Append(SeqOf(f, n - 1), f[n])

Rows(f) == SeqOf(f, Len(f))

\* ------------------------------------------------------------ item store
\* ItemEntity: the record of one item; id is its index in the items sequence
NewEntity(subject, predicate, object, category, confidence, resource_id, meta_about, canonical) ==
  [ created_at        |-> now,
    resource_id       |-> resource_id,
    subject           |-> subject,
    predicate         |-> predicate,
    object            |-> object,
    category          |-> category,
    confidence        |-> confidence,
    status            |-> "active",
    supersedes        |-> NoId,
    canonical_subject |-> IF canonical THEN Canon(subject) ELSE NoneStr,
    canonical_object  |-> IF canonical THEN Canon(object) ELSE NoneStr,
    meta_about        |-> meta_about ]

\* items.create: the relational model keeps every field of the entity; the
\* embedded backend's CREATE statement has no canonical_* and no meta_about
ItemCreate(b, its, e) ==
  IF b = "postgres" THEN Append(its, e)
  ELSE Append(its, [e EXCEPT !.canonical_subject = NoneStr,
                             !.canonical_object = NoneStr,
                             !.meta_about = NoId])

\* _to_entity / items.get: the row as the caller sees it
ToEntity(b, its, id) ==
  IF b = "postgres" THEN its[id]
  ELSE [its[id] EXCEPT !.canonical_subject = NoneStr,
                       !.canonical_object = NoneStr,
                       !.meta_about = NoId]

\* items.update(entity): full-row write of the mutable fields
ItemUpdate(b, its, id, e) ==
  IF b = "postgres"
  THEN [its EXCEPT ![id] = [@ EXCEPT !.subject = e.subject,
                                     !.predicate = e.predicate,
                                     !.object = e.object,
                                     !.category = e.category,
                                     !.confidence = e.confidence,
                                     !.status = e.status,
                                     !.supersedes = e.supersedes,
                                     !.canonical_subject = e.canonical_subject,
                                     !.canonical_object = e.canonical_object]]
  ELSE [its EXCEPT ![id] = [@ EXCEPT !.subject = e.subject,
                                     !.predicate = e.predicate,
                                     !.object = e.object,
                                     !.category = e.category,
                                     !.confidence = e.confidence,
                                     !.status = e.status,
                                     !.supersedes = IF e.supersedes # NoId
                                                    THEN e.supersedes ELSE @]]

\* items.update_status
UpdateStatus(its, id, status) == [its EXCEPT ![id].status = status]

CreatedKey(its) == [i \in DOMAIN its |-> its[i].created_at]

\* items.list(category, status, limit): ORDER BY created_at DESC LIMIT limit;
\* ord is the order in which the backend yields rows with equal created_at
ItemList(b, its, ord, category, status, limit) ==
  LET keep(i) == /\ its[i].status = status
                 /\ (b = "postgres" => its[i].meta_about = NoId)
                 /\ (category # NoneStr => its[i].category = category)
  IN  Take(SortDesc(CreatedKey(its), SelectSeq(ord, keep)), limit)

\* items.list_by_subject(subject, status)
ListBySubject(b, its, ord, subject, status) ==
  LET keep(i) == IF b = "postgres"
                 THEN /\ its[i].canonical_subject = resolve_entity(subject)
                      /\ its[i].status = status
                      /\ its[i].meta_about = NoId
                 ELSE /\ its[i].subject = subject
                      /\ its[i].status = status
  IN  SortDesc(CreatedKey(its), SelectSeq(ord, keep))

\* items.find_potential_conflicts(subject, predicate, exclude_id): no ORDER BY
FindPotentialConflicts(b, its, ord, subject, predicate, exclude_id) ==
  LET keep(i) == /\ IF b = "postgres"
                    THEN its[i].canonical_subject = resolve_entity(subject)
                    ELSE its[i].subject = subject
                 /\ its[i].predicate = predicate
                 /\ its[i].status = "active"
                 /\ i # exclude_id
  IN  SelectSeq(ord, keep)

\* items.list_distinct_categories(status)
ListDistinctCategories(b, its, status) ==
  {its[i].category : i \in {j \in DOMAIN its :
      /\ its[j].status = status
      /\ its[j].category # NoneStr
      /\ (b = "postgres" => its[j].meta_about = NoId)}}

\* items.list_all_ids(status)
ListAllIds(its, status) == {i \in DOMAIN its : its[i].status = status}

\* ----------------------------------------------------------- unit of work
Store(r, i, g, e) == [resources |-> r, items |-> i, edges |-> g, embeddings |-> e]

Current == Store(resources, items, edges, embeddings)

\* get_unit_of_work: what is persisted when the scope is left.  committed is
\* the store as of the last commit of the session, working the store as the
\* handler's statements left it, raised whether an exception left the scope.
\* The relational branch commits after the yield and rolls back on error; the
\* embedded branch never enters the unit of work, so _in_transaction stays
\* False, commit and rollback do nothing and every statement stands alone.
\* variant: a factory that leaves the commit to the caller
UowNoAutoCommit(b, committed, working, raised) ==
  IF b = "surrealdb" THEN working ELSE committed

get_unit_of_work(b, committed, working, raised) ==
  IF b = "surrealdb" THEN working
  ELSE IF raised THEN committed ELSE working

Persist(st) ==
  /\ resources' = st.resources
  /\ items' = st.items
  /\ edges' = st.edges
  /\ embeddings' = st.embeddings

\* what the last request returned: the ids of the items of the body (the
\* paths or the edges of a graph request), the category names of the body,
\* the resolutions the request performed (the steps a maintenance run
\* completed), the similarity of each search hit, the parameters a graph,
\* lookup, context or maintenance request was made with, the statistics a
\* maintenance run returned and the lines of a context text; the
\* three jobs answer with statistics that are not modelled (op "job"), an
\* error response carries no payload
Response(op, outcome, results, log) ==
  IF outcome = "ok"
  THEN [op |-> op, outcome |-> outcome, results |-> results, names |-> {}, log |-> log,
        scores |-> <<>>, request |-> <<>>, stats |-> <<>>,
        text |-> <<>>]
  ELSE [op |-> "request", outcome |-> outcome, results |-> <<>>, names |-> {}, log |-> <<>>,
        scores |-> <<>>, request |-> <<>>, stats |-> <<>>,
        text |-> <<>>]

\* ------------------------------------------------------------------ init
\* a weekly run between its first listing and its commit: the rows that
\* items.list returned to apply_time_decay and the entities as they were read
WeeklyRun(open, rows, ents) == [open |-> open, rows |-> rows, items |-> ents]

NoRun == WeeklyRun(FALSE, <<>>, <<>>)

\* the clock of every run but the overlapping ones
Ticks == {LongTick}

\* ------------------------------------- skill/scripts/post-tool-hook.py
MIN_INTERVAL_SECONDS == 300
MIN_NEW_MESSAGES == 10

\* the sessions (transcripts) and the hook processes that may run at once
Sessions == {"s1", "s2"}
Procs == {1, 2}

\* the clock of the hooks advances by one interval, a transcript grows by
\* the message threshold
MaxHookClock == MIN_INTERVAL_SECONDS
MessageStep == MIN_NEW_MESSAGES
MaxMessages == 2 * MessageStep

\* "last_capture": None
NoCapture == 0 - 1

\* state["sessions"][session_key]; absent stands for a missing key
SessionState(present, last_capture, message_count) ==
  [present |-> present, last_capture |-> last_capture, message_count |-> message_count]

Absent == SessionState(FALSE, NoCapture, 0)

\* a hook process: idle, or past load_throttle_state with the session of its
\* transcript, the messages it counted and the state it loaded
HookProc(pc, session, current_count, state) ==
  [pc |-> pc, session |-> session, current_count |-> current_count, state |-> state]

Idle == HookProc("idle", "s1", 0, [s \in Sessions |-> Absent])

\* the throttle-state file, the transcripts, the wall clock in seconds, the
\* hook processes, and what really happened: the time and the message count
\* of the last worker spawned for a session or, before the first worker, the
\* smallest count written at an initialisation of the session
NoHook ==
  [ file       |-> [s \in Sessions |-> Absent],
    transcript |-> [s \in Sessions |-> 0],
    clock      |-> 0,
    procs      |-> [p \in Procs |-> Idle],
    captured   |-> [s \in Sessions |-> SessionState(FALSE, NoCapture, 0)] ]

InitStore ==
  /\ backend \in Backends
  /\ weekly_run = NoRun
  /\ tick_days \in Ticks
  /\ hook = NoHook
  /\ now = 0
  /\ resources = <<>>
  /\ items = <<>>
  /\ edges = {}
  /\ embeddings = {}
  /\ resp = Response("init", "ok", <<>>, <<>>)

\* the item lifecycle is explored with the embedding provider unavailable; no
\* code that changes an item's status or supersedes reads the embeddings.
\* capacity is the number of item rows the explored store holds at most.
Init == InitStore /\ provider = FALSE /\ capacity = MaxItems

InitUow == InitStore /\ provider \in BOOLEAN /\ capacity = MaxItems

\* one more row, for the resolutions that take three items
InitConflict == InitStore /\ provider = FALSE /\ capacity = MaxItems + 1

\* the wall clock advances
Tick ==
  /\ now < MaxClock
  /\ now' = now + 1
  /\ UNCHANGED <<hook, tick_days, weekly_run, backend, provider, capacity, resources, items, edges, embeddings, resp>>

\* --------------------------------------------------------- POST /v2/items
GraphEdge(subject, predicate, object, weight) ==
  [subject |-> subject, predicate |-> predicate, object |-> object, weight |-> weight]

\* create_item_v2: create the item, then the embedding (skipped when the
\* embedding provider is unavailable) and the graph edge, then commit.
\* fail names the step that raises: "create", "commit" or "none".
create_item_v2(subject, predicate, object, category, confidence, fail) ==
  LET entity == NewEntity(subject, predicate, object, category, confidence, NoId, NoId, TRUE)
      its1   == ItemCreate(backend, items, entity)
      id     == Len(its1)
      emb1   == IF provider THEN embeddings \cup {id} ELSE embeddings
      edg1   == edges \cup {GraphEdge(resolve_entity(subject), predicate,
                                      resolve_entity(object), DefaultEdgeWeight)}
      working == IF fail = "create" THEN Current
                 ELSE Store(resources, its1, edg1, emb1)
  IN  /\ Persist(get_unit_of_work(backend, Current, working, fail # "none"))
      /\ resp' = Response("create_item_v2", IF fail = "none" THEN "ok" ELSE "error", <<>>, <<>>)

CreateItemV2 ==
  /\ Len(items) < capacity
  /\ \E subject \in Subjects, predicate \in Predicates, object \in DirectObjects,
        category \in RequestCategories, confidence \in Confidences :
       create_item_v2(subject, predicate, object, category, confidence, "none")
  /\ UNCHANGED <<hook, tick_days, weekly_run, backend, provider, capacity, now>>

CreateItemV2Fails ==
  /\ Len(items) < capacity
  /\ \E subject \in Subjects, predicate \in Predicates, object \in DirectObjects,
        category \in RequestCategories, confidence \in Confidences,
        fail \in {"create", "commit"} :
       /\ fail = "commit" => backend = "postgres"
       /\ create_item_v2(subject, predicate, object, category, confidence, fail)
  /\ UNCHANGED <<hook, tick_days, weekly_run, backend, provider, capacity, now>>

\* ------------------------------------------------------ conflict.py
\* check_conflict(item1, item2, use_llm=False)
check_conflict(item1, item2) ==
  /\ item1.subject = item2.subject
  /\ item1.predicate = item2.predicate
  /\ item1.object # item2.object

\* find_conflicts(uow, item_id): the candidates that conflict, in row order
find_conflicts(b, its, ord, item_id) ==
  LET item == ToEntity(b, its, item_id)
      candidates == FindPotentialConflicts(b, its, ord, item.subject, item.predicate, item_id)
      conflicting(c) == check_conflict(item, ToEntity(b, its, c))
  IN  SelectSeq(candidates, conflicting)

\* resolve_conflict(uow, new_item_id, old_item_id): both rows are read, the
\* old one is archived, the new one is written back with supersedes set
\* variant: the archived row is also made to point at the new one
ResolveConflictTwoWay(b, its, new_item_id, old_item_id) ==
  LET new_item == ToEntity(b, its, new_item_id)
      its1     == UpdateStatus(its, old_item_id, "archived")
      its2     == ItemUpdate(b, its1, new_item_id, [new_item EXCEPT !.supersedes = old_item_id])
  IN  [its2 EXCEPT ![old_item_id].supersedes = new_item_id]

resolve_conflict(b, its, new_item_id, old_item_id) ==
  LET new_item == ToEntity(b, its, new_item_id)
      its1     == UpdateStatus(its, old_item_id, "archived")
  IN  ItemUpdate(b, its1, new_item_id, [new_item EXCEPT !.supersedes = old_item_id])

\* the branch of auto_resolve_conflicts: TRUE when the item under resolution
\* (the new one) beats the conflicting candidate
NewItemWins(strategy, item, conflict) ==
  IF strategy = "recency"
  THEN item.created_at > conflict.created_at
  ELSE item.confidence >= conflict.confidence

IsTie(strategy, item, conflict) ==
  IF strategy = "recency"
  THEN item.created_at = conflict.created_at
  ELSE item.confidence = conflict.confidence

\* what one resolution left behind, as the caller can observe it
Resolution(its, strategy, item_id, conflict_id, winner, loser, tie) ==
  [ strategy      |-> strategy,
    item          |-> item_id,
    conflict      |-> conflict_id,
    winner        |-> winner,
    loser         |-> loser,
    tie           |-> tie,
    winner_status |-> its[winner].status,
    loser_status  |-> its[loser].status,
    winner_supersedes |-> its[winner].supersedes ]

\* the loop of auto_resolve_conflicts over the conflicts found at its start;
\* item and the conflicts are the entities read before the loop
RECURSIVE ResolveLoop(_, _, _, _, _, _, _)
ResolveLoop(b, its, log, strategy, item_id, item, conflicts) ==
  IF conflicts = <<>> THEN [items |-> its, log |-> log]
  ELSE LET c      == Head(conflicts)
           wins   == NewItemWins(strategy, item, c.entity)
           winner == IF wins THEN item_id ELSE c.id
           loser  == IF wins THEN c.id ELSE item_id
           its1   == resolve_conflict(b, its, winner, loser)
           entry  == Resolution(its1, strategy, item_id, c.id, winner, loser,
                                IsTie(strategy, item, c.entity))
       IN  ResolveLoop(b, its1, Append(log, entry), strategy, item_id, item, Tail(conflicts))

\* auto_resolve_conflicts(uow, item_id, strategy)
auto_resolve_conflicts(b, its, ord, log, item_id, strategy) ==
  LET item  == ToEntity(b, its, item_id)
      found == find_conflicts(b, its, ord, item_id)
      conflicts == [k \in DOMAIN found |-> [id |-> found[k], entity |-> ToEntity(b, its, found[k])]]
  IN  ResolveLoop(b, its, log, strategy, item_id, item, conflicts)

\* ------------------------------------------------------ classify.py
_rule_based_classify(item) ==
  CASE item.predicate = "likes" -> "preferences"
    [] OTHER -> "facts"

\* classify_item(uow, item_id, use_llm=False)
classify_item(b, its, item_id) ==
  LET item == ToEntity(b, its, item_id)
  IN  IF item.category # NoneStr THEN its
      ELSE ItemUpdate(b, its, item_id, [item EXCEPT !.category = _rule_based_classify(item)])

\* ------------------------------------------------- POST /ingest, /v2/ingest
\* a resource row; content tells whether extract_facts finds facts in the
\* text ("text") or none at all ("blank")
Resource(created_at, content) ==
  [created_at |-> created_at, deleted |-> FALSE, content |-> content]

NewResource == Resource(now, "text")

\* ingest_v2_endpoint: create the resource and read it back; the handler
\* itself never calls commit
ingest_v2_endpoint(fail) ==
  LET working == IF fail = "create" THEN Current
                 ELSE [Current EXCEPT !.resources = Append(resources, NewResource)]
  IN  /\ Persist(get_unit_of_work(backend, Current, working, fail # "none"))
      /\ resp' = Response("ingest_v2", IF fail = "none" THEN "ok" ELSE "error", <<>>, <<>>)

IngestV2 ==
  /\ Len(resources) < MaxResources
  /\ ingest_v2_endpoint("none")
  /\ UNCHANGED <<hook, tick_days, weekly_run, backend, provider, capacity, now>>

IngestV2Fails ==
  /\ Len(resources) < MaxResources
  /\ ingest_v2_endpoint("create")
  /\ UNCHANGED <<hook, tick_days, weekly_run, backend, provider, capacity, now>>

\* ingest_endpoint: create the resource, commit, then read it back; "get"
\* is an error of the read that follows the commit
ingest_endpoint(fail) ==
  LET created   == [Current EXCEPT !.resources = Append(resources, NewResource)]
      working   == IF fail = "create" THEN Current ELSE created
      committed == IF fail = "get" THEN created ELSE Current
  IN  /\ Persist(get_unit_of_work(backend, committed, working, fail # "none"))
      /\ resp' = Response("ingest", IF fail = "none" THEN "ok" ELSE "error", <<>>, <<>>)

Ingest ==
  /\ Len(resources) < MaxResources
  /\ ingest_endpoint("none")
  /\ UNCHANGED <<hook, tick_days, weekly_run, backend, provider, capacity, now>>

IngestFails ==
  /\ Len(resources) < MaxResources
  /\ \E fail \in {"create", "get"} : ingest_endpoint(fail)
  /\ UNCHANGED <<hook, tick_days, weekly_run, backend, provider, capacity, now>>

\* ---------------------------------------------------------- meta-facts
\* items.create_meta_fact(about_item_id, predicate, object_value, confidence)
\* of the relational repository
PostgresCreateMetaFact(its, about_item_id, predicate, object_value, confidence) ==
  ItemCreate("postgres", its,
             NewEntity(NoneStr, predicate, object_value, "meta", confidence, NoId,
                       about_item_id, FALSE))

\* the same operation of the embedded repository: a normal item row with
\* meta_about set, category "meta" and no subject
SurrealCreateMetaFact(its, about_item_id, predicate, object_value, confidence) ==
  Append(its, NewEntity(NoneStr, predicate, object_value, "meta", confidence, NoId,
                        about_item_id, FALSE))

create_meta_fact(b, its, about_item_id, predicate, object_value, confidence) ==
  IF b = "postgres"
  THEN PostgresCreateMetaFact(its, about_item_id, predicate, object_value, confidence)
  ELSE SurrealCreateMetaFact(its, about_item_id, predicate, object_value, confidence)

\* create_item_meta: 404 when the item is unknown, else create the meta-fact,
\* commit and read it back
create_item_meta(item_id, predicate, object, confidence, fail) ==
  LET created   == [Current EXCEPT !.items =
                       create_meta_fact(backend, items, item_id, predicate, object, confidence)]
      working   == IF fail = "create" THEN Current ELSE created
      committed == IF fail = "get" THEN created ELSE Current
  IN  /\ Persist(get_unit_of_work(backend, committed, working, fail # "none"))
      /\ resp' = Response("create_item_meta", IF fail = "none" THEN "ok" ELSE "error", <<>>, <<>>)

CreateItemMeta ==
  /\ Len(items) < capacity
  /\ \E item_id \in DOMAIN items, predicate \in MetaPredicates, object \in MetaObjects :
       create_item_meta(item_id, predicate, object, MetaConfidence, "none")
  /\ UNCHANGED <<hook, tick_days, weekly_run, backend, provider, capacity, now>>

CreateItemMetaFails ==
  /\ Len(items) < capacity
  /\ \E item_id \in DOMAIN items, predicate \in MetaPredicates, object \in MetaObjects,
        fail \in {"create", "get"} :
       create_item_meta(item_id, predicate, object, MetaConfidence, fail)
  /\ UNCHANGED <<hook, tick_days, weekly_run, backend, provider, capacity, now>>

\* ------------------------------------------------------------ POST /extract
Fact(subject, predicate, object, category, confidence) ==
  [subject |-> subject, predicate |-> predicate, object |-> object,
   category |-> category, confidence |-> confidence]

Facts == {Fact(s, p, o, c, k) : s \in Subjects, p \in Predicates, o \in Objects,
                                 c \in FactCategories, k \in FactConfidences}

\* the fact lists the extractor may return for a resource
FactLists == UNION {[1..n -> Facts] : n \in 0..MaxFacts}

\* the loop of extract_and_store: one active row per fact, with the resource
\* back-reference; the row is added to the session as it is, without
\* canonical forms
RECURSIVE AddItems(_, _, _)
AddItems(its, resource_id, facts) ==
  IF facts = <<>> THEN its
  ELSE AddItems(Append(its, NewEntity(Head(facts).subject, Head(facts).predicate,
                                      Head(facts).object, Head(facts).category,
                                      Head(facts).confidence, resource_id, NoId, FALSE)),
                resource_id, Tail(facts))

\* extract_and_store(resource_id): the facts extracted from the resource are
\* stored as items
ExtractAndStore(st, resource_id, facts) ==
  [st EXCEPT !.items = AddItems(st.items, resource_id, facts)]

\* the loop of extract_endpoint over the new item ids: classify, then resolve
\* conflicts; stopAt names the call that raises ("none" runs to the end); the
\* failure is placed in the first iteration
RECURSIVE ExtractLoop(_, _, _, _, _, _, _)
ExtractLoop(b, its, ord, log, ids, strategy, stopAt) ==
  IF ids = <<>> \/ stopAt = "classify" THEN [items |-> its, log |-> log]
  ELSE LET its1 == classify_item(b, its, Head(ids))
       IN  IF stopAt = "resolve" THEN [items |-> its1, log |-> log]
           ELSE LET r == auto_resolve_conflicts(b, its1, ord, log, Head(ids), strategy)
                IN  ExtractLoop(b, r.items, ord, r.log, Tail(ids), strategy, stopAt)

\* the row orders of the conflict lookups; none is read when there is no fact
ConflictOrders(facts) ==
  IF facts = <<>> THEN {[i \in DOMAIN items |-> i]} ELSE RowOrders(DOMAIN items)

\* extract_endpoint: extract and store, then classify and resolve each new
\* item with the default strategy, then commit
extract_endpoint(resource_id, facts, ord, fail) ==
  LET n       == Len(items)
      st1     == ExtractAndStore(Current, resource_id, facts)
      ids     == [i \in 1..Len(facts) |-> n + i]
      rows    == ord \o ids
      r       == ExtractLoop(backend, st1.items, rows, <<>>, ids, DefaultStrategy, fail)
      working == IF fail = "extract" THEN Current ELSE [st1 EXCEPT !.items = r.items]
  IN  /\ Persist(get_unit_of_work(backend, Current, working, fail # "none"))
      /\ resp' = Response("extract", IF fail = "none" THEN "ok" ELSE "error", <<>>,
                          IF fail = "none" THEN r.log ELSE <<>>)

Extract ==
  \E resource_id \in DOMAIN resources, facts \in FactLists :
    \E ord \in ConflictOrders(facts) :
       /\ ~resources[resource_id].deleted
       /\ Len(items) + Len(facts) <= capacity
       /\ extract_endpoint(resource_id, facts, ord, "none")
       /\ UNCHANGED <<hook, tick_days, weekly_run, backend, provider, capacity, now>>

ExtractFails ==
  \E resource_id \in DOMAIN resources, facts \in FactLists,
     fail \in {"extract", "classify", "resolve", "commit"} :
    \E ord \in ConflictOrders(facts) :
       /\ ~resources[resource_id].deleted
       /\ Len(items) + Len(facts) <= capacity
       /\ fail \in {"classify", "resolve"} => facts # <<>>
       /\ fail = "commit" => backend = "postgres"
       /\ extract_endpoint(resource_id, facts, ord, fail)
       /\ UNCHANGED <<hook, tick_days, weekly_run, backend, provider, capacity, now>>

\* ------------------------------------------------------ jobs/nightly.py
\* the first element of the sequence s that satisfies P (s has one)
FirstWhere(s, P(_)) == Head(SelectSeq(s, P))

DupKey(e) == <<e.subject, e.predicate, e.object>>

\* find_duplicate_items: the active rows ordered by subject, predicate,
\* object, created_at; every row whose key was seen before is paired with the
\* first row of that key.  The result maps each later row to that first row
\* and every other row to NoId.
find_duplicate_items(its, ord) ==
  LET active(i) == its[i].status = "active"
      rows      == SortAsc(CreatedKey(its), SelectSeq(ord, active))
      first(i)  == LET same(j) == DupKey(its[j]) = DupKey(its[i])
                   IN  FirstWhere(rows, same)
  IN  Rows([i \in DOMAIN its |->
         IF active(i) /\ first(i) # i THEN first(i) ELSE NoId])

\* merge_duplicates(keep_newer=True): the older row of each pair is archived,
\* the newer one supersedes it and keeps the higher confidence
\* variant: keep_newer=False, the newer row of each pair is archived and the
\* older one supersedes it
MergeDuplicatesKeepOlder(its, ord) ==
  LET older == find_duplicate_items(its, ord)
      isOlder(i) == \E j \in DOMAIN its : older[j] = i
  IN  Rows([i \in DOMAIN its |->
         IF older[i] # NoId THEN [its[i] EXCEPT !.status = "archived"]
         ELSE IF isOlder(i)
         THEN [its[i] EXCEPT !.supersedes = CHOOSE j \in DOMAIN its : older[j] = i]
         ELSE its[i]])

merge_duplicates(its, ord) ==
  LET older == find_duplicate_items(its, ord)
      isOlder(i) == \E j \in DOMAIN its : older[j] = i
  IN  Rows([i \in DOMAIN its |->
         IF older[i] # NoId
         THEN [its[i] EXCEPT !.supersedes = older[i],
                             !.confidence = Max(@, its[older[i]].confidence)]
         ELSE IF isOlder(i) THEN [its[i] EXCEPT !.status = "archived"]
         ELSE its[i]])

\* 0.5 ** (age_days / 7) in ten-thousandths, for the ages of the model:
\* 0.5 ** (30 / 7) = 0.0512, 0.5 ** (60 / 7) = 0.0026, and from LongTick on
\* the value is below 0.00005
Recency(age_days) ==
  CASE age_days = 0 -> HotnessScale
    [] age_days = ShortTick -> 512
    [] age_days = 2 * ShortTick -> 26
    [] OTHER -> 0

\* calculate_item_hotness, in ten-thousandths:
\* recency * 0.5 + min(1, related / 10) * 0.3 + confidence * 0.2
calculate_item_hotness(its, item_id) ==
  LET item     == its[item_id]
      age_days == (now - item.created_at) * DaysPerTick
      related  == Cardinality({j \in DOMAIN its :
                     /\ its[j].subject = item.subject
                     /\ (now - its[j].created_at) * DaysPerTick < LookbackDays
                     /\ its[j].status = "active"})
  IN  Recency(age_days) \div 2 + Min(RelatedCap, related) * RelatedStep + item.confidence * 2

\* promote_hot_items(threshold=0.7, boost_amount=0.1)
promote_hot_items(its) ==
  Rows([i \in DOMAIN its |->
     IF its[i].status = "active" /\ calculate_item_hotness(its, i) >= HotnessThreshold
     THEN [its[i] EXCEPT !.confidence = Min(MaxConfidence, @ + BoostAmount)]
     ELSE its[i]])

\* run_nightly_consolidation: merge, then promote (the category summaries it
\* rewrites are not part of the modelled state)
run_nightly_consolidation(its, ord) == promote_hot_items(merge_duplicates(its, ord))

\* nightly_job: POST /jobs/nightly
NightlyJob ==
  \E ord \in SortedOrders(DOMAIN items, CreatedKey(items)) :
    LET working == [Current EXCEPT !.items = run_nightly_consolidation(items, ord)]
    IN  /\ Persist(get_unit_of_work(backend, Current, working, FALSE))
        /\ resp' = Response("job", "ok", <<>>, <<>>)
        /\ UNCHANGED <<hook, tick_days, weekly_run, backend, provider, capacity, now>>

\* ------------------------------------------------------ jobs/weekly.py
\* 1 / time_decay_score: 0.5 ** (age_days / half_life_days) is one over a
\* power of two because DaysPerTick is a multiple of the half life
time_decay_score(created_at) ==
  Pow2(((now - created_at) * DaysPerTick) \div DEFAULT_HALF_LIFE_DAYS)

\* new_confidence = item.confidence * decay
DecayedConfidence(item) == item.confidence \div time_decay_score(item.created_at)

\* "if abs(new_confidence - item.confidence) > 0.01"
NeedsDecay(item) == Abs(DecayedConfidence(item) - item.confidence) > DecayThreshold

\* max(0.1, new_confidence)
\* variant: the decayed value is written back as it is
DecayUnfloored(new_confidence) == new_confidence

DecayFloor(new_confidence) == Max(MinConfidence, new_confidence)

\* the loop of apply_time_decay over the entities listed from its
RECURSIVE DecayLoop(_, _, _, _)
DecayLoop(b, its, cur, rs) ==
  IF rs = <<>> THEN cur
  ELSE LET item == ToEntity(b, its, Head(rs))
           new_confidence == DecayedConfidence(item)
       IN  IF NeedsDecay(item)
           THEN DecayLoop(b, its,
                          ItemUpdate(b, cur, Head(rs),
                            [item EXCEPT !.confidence = DecayFloor(new_confidence)]),
                          Tail(rs))
           ELSE DecayLoop(b, its, cur, Tail(rs))

\* apply_time_decay: every active row whose decayed confidence differs by
\* more than 0.01 is written back, floored at 0.1
apply_time_decay(b, its, ord) ==
  DecayLoop(b, its, its, ItemList(b, its, ord, NoneStr, "active", JobListLimit))

\* "updated" of apply_time_decay: the listed items it wrote back
DecayedCount(b, its, ord) ==
  LET rows == ItemList(b, its, ord, NoneStr, "active", JobListLimit)
      written(i) == NeedsDecay(ToEntity(b, its, i))
  IN  Len(SelectSeq(rows, written))

\* graph.list_all: ORDER BY weight DESC; gord is the order of equal weights
GraphListAll(g, gord) == SortDesc([e \in g |-> e.weight], gord)

\* direct[entity] of _build_adjacency: (neighbor, weight) in edge order
RECURSIVE Direct(_, _)
Direct(entity, rows) ==
  IF rows = <<>> THEN <<>>
  ELSE (IF Head(rows).subject = entity
        THEN <<[n |-> Head(rows).object, w |-> Head(rows).weight]>> ELSE <<>>)
       \o (IF Head(rows).object = entity
           THEN <<[n |-> Head(rows).subject, w |-> Head(rows).weight]>> ELSE <<>>)
       \o Direct(entity, Tail(rows))

\* append the candidates not seen yet, at the given distance
RECURSIVE AddUnseen(_, _, _, _)
AddUnseen(entity, acc, cands, distance) ==
  IF cands = <<>> THEN acc
  ELSE LET c    == Head(cands)
           seen == {entity} \cup {acc[k].n : k \in DOMAIN acc}
       IN  AddUnseen(entity,
                     IF c.n \in seen THEN acc
                     ELSE Append(acc, [n |-> c.n, w |-> c.w, d |-> distance]),
                     Tail(cands), distance)

RECURSIVE Hop2Candidates(_, _)
Hop2Candidates(neighbors, rows) ==
  IF neighbors = <<>> THEN <<>>
  ELSE Direct(Head(neighbors).n, rows) \o Hop2Candidates(Tail(neighbors), rows)

\* _build_adjacency(edges)[entity]: (neighbor, weight, distance), 1-hop then
\* 2-hop, each neighbor once
_build_adjacency(entity, rows) ==
  LET neighbors == Direct(entity, rows)
      hop1      == AddUnseen(entity, <<>>, neighbors, 1)
  IN  AddUnseen(entity, hop1, Hop2Candidates(neighbors, rows), 2)

RECURSIVE SumSeq(_)
SumSeq(s) == IF s = <<>> THEN 0 ELSE Head(s) + SumSeq(Tail(s))

\* canonical_subject or canonical_object
EntityKey(item) ==
  IF item.canonical_subject # NoneStr THEN item.canonical_subject ELSE item.canonical_object

\* the listed items that count for the entity k
EntityItems(b, its, rows, k) ==
  LET is(i) == /\ ToEntity(b, its, i).meta_about = NoId
               /\ EntityKey(ToEntity(b, its, i)) # NoneStr
               /\ EntityKey(ToEntity(b, its, i)) = k
  IN  SelectSeq(rows, is)

\* entity_confidence[k]: the average confidence of the items of the entity
EntityConfidence(b, its, rows, k) ==
  LET members == EntityItems(b, its, rows, k)
  IN  SumSeq([x \in DOMAIN members |-> ToEntity(b, its, members[x]).confidence])
        \div Len(members)

\* the loop of propagate_confidence over the listed items
RECURSIVE PropagateLoop(_, _, _, _, _, _)
PropagateLoop(b, its, rows, erows, cur, rs) ==
  IF rs = <<>> THEN cur
  ELSE LET i      == Head(rs)
           item   == ToEntity(b, its, i)
           usable == item.meta_about = NoId /\ EntityKey(item) # NoneStr
           known(nb) == EntityItems(b, its, rows, nb.n) # <<>>
           nbs    == SelectSeq(_build_adjacency(EntityKey(item), erows), known)
           weight == [x \in DOMAIN nbs |-> nbs[x].w * (IF nbs[x].d = 1 THEN 2 ELSE 1)]
           total_weight == SumSeq(weight)
           weighted_sum == SumSeq([x \in DOMAIN nbs |->
                              EntityConfidence(b, its, rows, nbs[x].n) * weight[x]])
           new_confidence ==
             Max(MinConfidence, Min(MaxConfidence,
                 (item.confidence * (100 - PROPAGATION_STRENGTH)
                  + (weighted_sum \div total_weight) * PROPAGATION_STRENGTH) \div 100))
       IN  IF ~usable \/ total_weight = 0
              \/ Abs(new_confidence - item.confidence) < MIN_CHANGE_THRESHOLD
           THEN PropagateLoop(b, its, rows, erows, cur, Tail(rs))
           ELSE PropagateLoop(b, its, rows, erows,
                              ItemUpdate(b, cur, i, [item EXCEPT !.confidence = new_confidence]),
                              Tail(rs))

\* propagate_confidence: 85% of the item's confidence plus 15% of the weighted
\* average confidence of the neighbours of its entity (distance 2 counts
\* half; the weights are doubled to stay in integers)
propagate_confidence(b, its, ord, g, gord) ==
  LET rows == ItemList(b, its, ord, NoneStr, "active", JobListLimit)
  IN  IF g = {} THEN its
      ELSE PropagateLoop(b, its, rows, GraphListAll(g, gord), its, rows)

\* archive_old_items / list_old_low_confidence(90, 0.2)
\* variant: the status of every old low-confidence row is flipped
ArchiveOldItemsToggling(its) ==
  Rows([i \in DOMAIN its |->
     IF /\ (now - its[i].created_at) * DaysPerTick > MAX_AGE_DAYS
        /\ its[i].confidence < ArchiveMinConfidence
     THEN [its[i] EXCEPT !.status = IF @ = "active" THEN "archived" ELSE "active"]
     ELSE its[i]])

archive_old_items(its) ==
  Rows([i \in DOMAIN its |->
     IF /\ its[i].status = "active"
        /\ (now - its[i].created_at) * DaysPerTick > MAX_AGE_DAYS
        /\ its[i].confidence < ArchiveMinConfidence
     THEN [its[i] EXCEPT !.status = "archived"]
     ELSE its[i]])

\* str.lower() and the "in" test of _items_similar, on the strings of the model
Lower(text) ==
  CASE text = "Python" -> "python"
    [] text = "Alice" -> "alice"
    [] OTHER -> text

IsSubstring(a, b) == a = b \/ (a = "py" /\ b = "python")

\* _items_similar(item1, item2, threshold)
_items_similar(item1, item2) ==
  /\ item1.predicate = item2.predicate
  /\ \/ Lower(item1.object) = Lower(item2.object)
     \/ IsSubstring(Lower(item1.object), Lower(item2.object))
     \/ IsSubstring(Lower(item2.object), Lower(item1.object))

\* the order of (subject or "") as Python compares the strings of the model
SubjectOrder(subject) ==
  CASE subject = NoneStr -> 0
    [] subject = "Alice" -> 1
    [] subject = "alice" -> 2
    [] subject = "dark_mode" -> 3
    [] subject = "user" -> 4
    [] subject = "vscode" -> 5
    [] OTHER -> 1

\* the loop of compress_similar_items: ents holds the entities as listed,
\* with the supersedes the loop assigned to them; seen the rows kept so far
RECURSIVE CompressLoop(_, _, _, _, _)
CompressLoop(b, cur, ents, seen, rs) ==
  IF rs = <<>> THEN cur
  ELSE LET item  == Head(rs)
           similar(e) == /\ ents[e].subject = ents[item].subject
                         /\ _items_similar(ents[e], ents[item])
           found == SelectSeq(seen, similar)
       IN  IF found = <<>> THEN CompressLoop(b, cur, ents, Append(seen, item), Tail(rs))
           ELSE LET existing == Head(found)
                    other(e) == e # existing
                IN  IF ents[existing].confidence >= ents[item].confidence
                    THEN LET ents1 == [ents EXCEPT ![existing].supersedes = item]
                             cur1  == UpdateStatus(cur, item, "archived")
                         IN  CompressLoop(b, ItemUpdate(b, cur1, existing, ents1[existing]),
                                          ents1, seen, Tail(rs))
                    ELSE LET ents1 == [ents EXCEPT ![item].supersedes = existing]
                             cur1  == UpdateStatus(cur, existing, "archived")
                         IN  CompressLoop(b, ItemUpdate(b, cur1, item, ents1[item]), ents1,
                                          Append(SelectSeq(seen, other), item), Tail(rs))

\* compress_similar_items: the active rows sorted by (subject, created_at)
\* descending; each row is compared with the rows kept so far for its
\* subject, the member with the lower confidence is archived and the other
\* one is written back with supersedes pointing at it
compress_similar_items(b, its, ord) ==
  LET rows == ItemList(b, its, ord, NoneStr, "active", JobListLimit)
      key  == [i \in DOMAIN its |->
                 SubjectOrder(its[i].subject) * (MaxClock + 1) + its[i].created_at]
  IN  CompressLoop(b, its, Rows([i \in DOMAIN its |-> ToEntity(b, its, i)]), <<>>,
                   SortDesc(key, rows))

\* resources.delete_orphaned(180): resources older than the cutoff that no
\* item refers to
cleanup_orphaned_resources(res, its) ==
  Rows([r \in DOMAIN res |->
     IF /\ (now - res[r].created_at) * DaysPerTick > OrphanMaxAgeDays
        /\ \A i \in DOMAIN its : its[i].resource_id # r
     THEN [res[r] EXCEPT !.deleted = TRUE]
     ELSE res[r]])

\* run_weekly_maintenance: decay, propagate, archive, compress, cleanup; one
\* row order serves every listing of the run
run_weekly_maintenance(b, st, ord, gord) ==
  LET its1 == apply_time_decay(b, st.items, ord)
      its2 == propagate_confidence(b, its1, ord, st.edges, gord)
      its3 == archive_old_items(its2)
      its4 == compress_similar_items(b, its3, ord)
  IN  [st EXCEPT !.items = its4,
                 !.resources = cleanup_orphaned_resources(st.resources, its4)]

\* weekly_job: POST /jobs/weekly
WeeklyJob ==
  \E ord \in SortedOrders(DOMAIN items, CreatedKey(items)),
     gord \in SortedOrders(edges, [e \in edges |-> e.weight]) :
    /\ Persist(get_unit_of_work(backend, Current,
                                run_weekly_maintenance(backend, Current, ord, gord), FALSE))
    /\ resp' = Response("job", "ok", <<>>, <<>>)
    /\ UNCHANGED <<hook, tick_days, weekly_run, backend, provider, capacity, now>>

\* ------------------------------------------------------ jobs/monthly.py
\* cleanup_stale_embeddings: embeddings.delete_stale(list_all_ids("active"))
cleanup_stale_embeddings(its, emb) == emb \cap ListAllIds(its, "active")

\* recompute_all_embeddings: every listed active item whose entity carries
\* no meta_about gets its embedding again; a provider error is swallowed
recompute_all_embeddings(b, its, ord, emb) ==
  LET rows == ItemList(b, its, ord, NoneStr, "active", RecomputeListLimit)
      plain(i) == ToEntity(b, its, i).meta_about = NoId
  IN  IF provider THEN emb \cup Range(SelectSeq(rows, plain)) ELSE emb

\* rebuild_graph_edges: delete every edge, then one "relates_to" edge per
\* (subject, object) of the listed active items, weighted with the confidence
\* of the first such item, and one "shares_<category>" edge per pair of
\* subjects of a category (pairs taken in the order of SubjectOrder)
rebuild_graph_edges(b, its, ord) ==
  LET rows == ItemList(b, its, ord, NoneStr, "active", JobListLimit)
      ent(i) == ToEntity(b, its, i)
      withSubject(i) == ent(i).subject # NoneStr
      srows == SelectSeq(rows, withSubject)
      firstOf(i) == LET same(j) == /\ ent(j).subject = ent(i).subject
                                   /\ ent(j).object = ent(i).object
                    IN  FirstWhere(srows, same)
      relates == {GraphEdge(ent(i).subject, "relates_to", ent(i).object,
                            ent(firstOf(i)).confidence) :
                    i \in {j \in Range(srows) : ent(j).object # NoneStr}}
      categorised == {i \in Range(srows) : ent(i).category # NoneStr}
      shares == {GraphEdge(ent(i).subject, "shares_category", ent(j).subject,
                           CategoryEdgeWeight) :
                   <<i, j>> \in {p \in categorised \X categorised :
                      /\ ent(p[1]).category = ent(p[2]).category
                      /\ SubjectOrder(ent(p[1]).subject) < SubjectOrder(ent(p[2]).subject)}}
  IN  relates \cup shares

\* reweight_graph_edges: an edge whose weight is more than 0.05 away from the
\* average confidence of the active items of its subject takes that average
reweight_graph_edges(b, its, ord, g) ==
  LET rows == ItemList(b, its, ord, NoneStr, "active", JobListLimit)
      ent(i) == ToEntity(b, its, i)
      of(subject) == LET is(i) == ent(i).subject # NoneStr /\ ent(i).subject = subject
                     IN  SelectSeq(rows, is)
      avg(subject) ==
        IF of(subject) = <<>> THEN DefaultAvgConfidence
        ELSE SumSeq([x \in DOMAIN of(subject) |-> ent(of(subject)[x]).confidence])
               \div Len(of(subject))
  IN  {IF Abs(e.weight - avg(e.subject)) > ReweightThreshold
       THEN [e EXCEPT !.weight = avg(e.subject)] ELSE e : e \in g}

\* run_monthly_reindex
run_monthly_reindex(b, st, ord) ==
  LET emb1 == cleanup_stale_embeddings(st.items, st.embeddings)
      emb2 == recompute_all_embeddings(b, st.items, ord, emb1)
      g1   == rebuild_graph_edges(b, st.items, ord)
  IN  [st EXCEPT !.embeddings = emb2,
                 !.edges = reweight_graph_edges(b, st.items, ord, g1)]

\* monthly_job: POST /jobs/monthly
MonthlyJob ==
  \E ord \in SortedOrders(DOMAIN items, CreatedKey(items)) :
    /\ Persist(get_unit_of_work(backend, Current,
                                run_monthly_reindex(backend, Current, ord), FALSE))
    /\ resp' = Response("job", "ok", <<>>, <<>>)
    /\ UNCHANGED <<hook, tick_days, weekly_run, backend, provider, capacity, now>>

\* ------------------------------------------------------------ read paths
\* list_items_v2: GET /v2/items?category=&status=&limit=
list_items_v2(ord, category, status, limit) ==
  resp' = Response("list_items", "ok",
                   ItemList(backend, items, ord, category, status, limit), <<>>)

ListItems ==
  \E ord \in SortedOrders(DOMAIN items, CreatedKey(items)),
     category \in {NoneStr} \cup RequestCategories,
     status \in {"active", "archived"}, limit \in ListLimits :
    /\ list_items_v2(ord, category, status, limit)
    /\ UNCHANGED <<hook, tick_days, weekly_run, backend, provider, capacity, now, resources, items, edges, embeddings>>

\* the names of the categories that have items: GET /v2/categories
ListCategories ==
  /\ resp' = [Response("list_categories", "ok", <<>>, <<>>)
                EXCEPT !.names = ListDistinctCategories(backend, items, "active")]
  /\ UNCHANGED <<hook, tick_days, weekly_run, backend, provider, capacity, now, resources, items, edges, embeddings>>

\* graph.get_neighbors(entity, depth=1): the edges at the entity, by weight
GetNeighbors(g, gord, entity) ==
  LET at(e) == e.subject = entity \/ e.object = entity
  IN  SelectSeq(GraphListAll(g, gord), at)

\* the hits of one listing that are new and pass the category filter
NewHits(its, found, seen, category, similarity) ==
  LET fresh(i) == /\ \A k \in DOMAIN seen : seen[k].id # i
                  /\ (category # NoneStr => its[i].category = category)
      ids == SelectSeq(found, fresh)
  IN  [k \in DOMAIN ids |-> [id |-> ids[k], similarity |-> similarity]]

\* the loop of _entity_lookup over the edges at the entity
RECURSIVE LookupLoop(_, _, _, _, _, _)
LookupLoop(b, its, ord, category, results, es) ==
  IF es = <<>> THEN results
  ELSE LET r1 == results \o NewHits(its, ListBySubject(b, its, ord, Head(es).subject, "active"),
                                    results, category, SubjectSideSimilarity)
           r2 == r1 \o NewHits(its, ListBySubject(b, its, ord, Head(es).object, "active"),
                               r1, category, ObjectSideSimilarity)
       IN  LookupLoop(b, its, ord, category, r2, Tail(es))

\* _entity_lookup: the items of the subject and of the object of every edge
\* at the entity (0.9 and 0.8), then the items of the entity itself (1.0),
\* sorted by similarity, cut at limit
EntityLookupHits(b, its, ord, g, gord, entity, category, limit) ==
  LET canonical == resolve_entity(entity)
      viaGraph  == LookupLoop(b, its, ord, category, <<>>, GetNeighbors(g, gord, canonical))
      all       == viaGraph \o NewHits(its, ListBySubject(b, its, ord, canonical, "active"),
                                       viaGraph, category, MaxConfidence)
      order     == SortDesc([k \in DOMAIN all |-> all[k].similarity],
                            [k \in DOMAIN all |-> k])
  IN  Take(Rows([k \in DOMAIN order |-> all[order[k]]]), limit)

\* the ids of the items of the result
_entity_lookup(b, its, ord, g, gord, entity, category, limit) ==
  LET hits == EntityLookupHits(b, its, ord, g, gord, entity, category, limit)
  IN  Rows([k \in DOMAIN hits |-> hits[k].id])

\* _temporal_search(days): the listed items created within the last days
_temporal_search(b, its, ord, days, category, limit) ==
  LET within(i) == (now - its[i].created_at) * DaysPerTick <= days
  IN  SelectSeq(ItemList(b, its, ord, category, "active", limit), within)

\* _aspect_filter(category)
_aspect_filter(b, its, ord, category, limit) ==
  ItemList(b, its, ord, category, "active", limit)

\* embeddings.search: the active items whose stored vector is close enough
\* to the query (hits), in the order of their similarity
\* variant: a vector search that does not look at the status
EmbeddingSearchAnyStatus(its, emb, ord, hits, limit) ==
  LET match(i) == i \in emb /\ i \in hits
  IN  Take(SelectSeq(ord, match), limit)

EmbeddingSearch(its, emb, ord, hits, limit) ==
  LET match(i) == i \in emb /\ i \in hits /\ its[i].status = "active"
  IN  Take(SelectSeq(ord, match), limit)

\* _semantic_search: the embedding hits of the category; the recent items
\* when there is none or when the provider fails
_semantic_search(b, its, emb, ord, hits, category, limit) ==
  LET inCategory(i) == category # NoneStr => its[i].category = category
      results == SelectSeq(EmbeddingSearch(its, emb, ord, hits, limit), inCategory)
  IN  IF provider /\ results # <<>> THEN results
      ELSE ItemList(b, its, SortDesc(CreatedKey(its), ord), category, "active", limit)

\* smart_search / GET /search: route on the intent of the query.  The
\* parameters a strategy does not read are passed as NoneStr / {} / <<>>.
smart_search(intent, ord, gord, hits, category, limit) ==
  CASE intent = "EntityLookup" ->
         _entity_lookup(backend, items, ord, edges, gord, "Alice", category, limit)
    [] intent = "Temporal" ->
         _temporal_search(backend, items, ord, LookbackDays, category, limit)
    [] intent = "AspectFilter" ->
         _aspect_filter(backend, items, ord,
                        IF category # NoneStr THEN category ELSE "preferences", limit)
    [] OTHER ->
         _semantic_search(backend, items, embeddings, ord, hits, category, limit)

SmartSearch ==
  /\ \/ \E ord \in SortedOrders(DOMAIN items, CreatedKey(items)),
           gord \in SortedOrders(edges, [e \in edges |-> e.weight]),
           category \in SearchCategories, limit \in ListLimits :
          resp' = Response("smart_search", "ok",
                           smart_search("EntityLookup", ord, gord, {}, category, limit), <<>>)
     \/ \E intent \in {"Temporal", "AspectFilter"},
           ord \in SortedOrders(DOMAIN items, CreatedKey(items)),
           category \in SearchCategories, limit \in ListLimits :
          resp' = Response("smart_search", "ok",
                           smart_search(intent, ord, <<>>, {}, category, limit), <<>>)
     \/ \E ord \in RowOrders(DOMAIN items), hits \in SUBSET embeddings,
           category \in SearchCategories, limit \in ListLimits :
          resp' = Response("smart_search", "ok",
                           smart_search("SemanticSearch", ord, <<>>, hits, category, limit), <<>>)
  /\ UNCHANGED <<hook, tick_days, weekly_run, backend, provider, capacity, now, resources, items, edges, embeddings>>

\* categories.count_items_per_category("active"): the categories with items
CategoriesWithItems(its) ==
  {its[i].category : i \in {j \in DOMAIN its :
      its[j].status = "active" /\ its[j].category # NoneStr}}

\* get_tiered_context: for every category with active items, in the order
\* of their priority, its most recent active items as "- subject predicate
\* object" lines; the result lists the items of the lines (summaries and
\* max_chars are left out)
RECURSIVE get_tiered_context(_, _, _, _, _)
get_tiered_context(b, its, ord, categories, max_items_per_category) ==
  IF categories = <<>> THEN <<>>
  ELSE ItemList(b, its, ord, Head(categories), "active", max_items_per_category)
       \o get_tiered_context(b, its, ord, Tail(categories), max_items_per_category)

\* context_endpoint: GET /context
Context ==
  \E ord \in SortedOrders(DOMAIN items, CreatedKey(items)),
     order \in RowOrders(CategoriesWithItems(items)), limit \in ListLimits :
    /\ resp' = Response("context", "ok",
                        get_tiered_context(backend, items, ord, order, limit), <<>>)
    /\ UNCHANGED <<hook, tick_days, weekly_run, backend, provider, capacity, now, resources, items, edges, embeddings>>

\* ------------------------------------------------------ graph repository
\* the hard cap of find_paths on max_depth, the defaults of GET /graph/paths
MaxPathDepth == 3
DefaultPathDepth == 2
DefaultMaxPaths == 20
\* the graphs explored hold one row more than the cap, so that a chain with
\* a hop beyond the cap exists
MaxGraphEdges == MaxPathDepth + 1

\* the entities and the rows of the graphs explored for the traversals: a
\* chain a - b - c - d - e, the edge that closes the cycle a - b - c, and a
\* self-loop at c; weights 1.0 and 0.5
GraphEdgeRows ==
  { GraphEdge("a", "knows", "b", DefaultEdgeWeight),
    GraphEdge("b", "knows", "c", CategoryEdgeWeight),
    GraphEdge("c", "knows", "a", DefaultEdgeWeight),
    GraphEdge("c", "knows", "d", CategoryEdgeWeight),
    GraphEdge("d", "knows", "e", DefaultEdgeWeight),
    GraphEdge("c", "knows", "c", DefaultEdgeWeight) }

PathSources == {"a", "c"}
PathTargets == {NoneStr, "e"}
PathDepths == {DefaultPathDepth, MaxPathDepth + 1}
NeighborDepths == {1, DefaultPathDepth, MaxPathDepth}

\* GraphPath(source, target, edges, hops, distance, weight)
GraphPath(source, target, path_edges, hops, weight) ==
  [ source   |-> source,
    target   |-> target,
    edges    |-> path_edges,
    hops     |-> hops,
    distance |-> Len(path_edges),
    weight   |-> weight ]

\* edge_triple
EdgeTriple(edge) == <<edge.subject, edge.predicate, edge.object>>

\* SELECT ... WHERE subject = entity OR object = entity, without ORDER BY:
\* the matching rows in the order rows the backend yields them
\* variant: only the edges that leave the entity
EdgesAtSubject(rows, entity) ==
  LET at(e) == e.subject = entity
  IN  SelectSeq(rows, at)

EdgesAt(rows, entity) ==
  LET at(e) == e.subject = entity \/ e.object = entity
  IN  SelectSeq(rows, at)

\* w * edge.weight: the product of two weights given in thousandths (exact
\* for the weights and the depths explored)
WeightTimes(w, weight) == (w * weight) \div DefaultEdgeWeight

\* "next_entity in hops"
\* variant: only the source of the path is compared
InHopsSourceOnly(hops, next_entity) == next_entity = hops[1]

InHops(hops, next_entity) == next_entity \in Range(hops)

\* the for loop of find_paths over the edges at the entity taken from the
\* queue; cur is that queue entry, st the paths, the queue and visited_edges
RECURSIVE VisitNeighbors(_, _, _, _, _)
VisitNeighbors(source, max_depth, cur, neighbors, st) ==
  IF neighbors = <<>> THEN st
  ELSE LET edge        == Head(neighbors)
           next_entity == IF edge.subject = cur.entity THEN edge.object ELSE edge.subject
           new_hops    == Append(cur.hops, next_entity)
           new_edges   == Append(cur.edges, edge)
           new_weight  == WeightTimes(cur.w, edge.weight)
           st1 == [st EXCEPT !.visited_edges = @ \cup {EdgeTriple(edge)}]
           st2 == [st1 EXCEPT
                     !.paths = Append(@, GraphPath(source, next_entity, new_edges,
                                                   new_hops, new_weight)),
                     !.queue = IF Len(new_hops) - 1 < max_depth
                               THEN Append(@, [entity |-> next_entity, hops |-> new_hops,
                                               edges |-> new_edges, w |-> new_weight])
                               ELSE @]
       IN  VisitNeighbors(source, max_depth, cur, Tail(neighbors),
                          IF EdgeTriple(edge) \in st.visited_edges THEN st
                          ELSE IF InHops(cur.hops, next_entity) THEN st1
                          ELSE st2)

\* the while loop of find_paths over the queue
RECURSIVE PathsLoop(_, _, _, _)
PathsLoop(rows, source, max_depth, st) ==
  IF st.queue = <<>> THEN st.paths
  ELSE LET cur == Head(st.queue)
           st1 == [st EXCEPT !.queue = Tail(@)]
       IN  IF Len(cur.hops) - 1 >= max_depth
           THEN PathsLoop(rows, source, max_depth, st1)
           ELSE PathsLoop(rows, source, max_depth,
                          VisitNeighbors(source, max_depth, cur,
                                         EdgesAt(rows, cur.entity), st1))

\* the paths found from source within max_depth hops, sorted by weight
\* descending (stable), filtered on the target, cut at max_paths
PathsWithin(rows, source, target, max_depth, max_paths) ==
  LET start  == [entity |-> source, hops |-> <<source>>, edges |-> <<>>,
                 w |-> DefaultEdgeWeight]
      paths  == PathsLoop(rows, source, max_depth,
                          [queue |-> <<start>>, visited_edges |-> {}, paths |-> <<>>])
      order  == SortDesc([k \in DOMAIN paths |-> paths[k].weight],
                         [k \in DOMAIN paths |-> k])
      sorted == [k \in DOMAIN order |-> paths[order[k]]]
      to(p)  == p.target = target
  IN  Take(IF target # NoneStr THEN SelectSeq(sorted, to) ELSE sorted, max_paths)

\* graph.find_paths(source, target, max_depth, max_paths), the same code in
\* both repositories: max_depth = min(max_depth, 3), then the search
\* variant: the search runs to the depth the caller asked for
FindPathsUnclamped(rows, source, target, max_depth, max_paths) ==
  PathsWithin(rows, source, target, max_depth, max_paths)

find_paths(rows, source, target, max_depth, max_paths) ==
  PathsWithin(rows, source, target, Min(max_depth, MaxPathDepth), max_paths)

\* the for loop of get_neighbors over range(depth - 1): the edges at the
\* entities that the edges gathered so far newly reach are appended, in the
\* order the backend yields them
RECURSIVE ExpandNeighbors(_, _, _, _)
ExpandNeighbors(rows, visited_entities, all_edges, rounds) ==
  IF rounds = 0 THEN all_edges
  ELSE LET new_entities ==
             ({all_edges[k].subject : k \in DOMAIN all_edges}
                \cup {all_edges[k].object : k \in DOMAIN all_edges}) \ visited_entities
           at(e) == e.subject \in new_entities \/ e.object \in new_entities
       IN  IF new_entities = {} THEN all_edges
           ELSE ExpandNeighbors(rows, visited_entities \cup new_entities,
                                all_edges \o SelectSeq(rows, at), rounds - 1)

\* graph.get_neighbors(entity, depth), the same code in both repositories
get_neighbors(g, rows, entity, depth) ==
  LET direct == GetNeighbors(g, rows, entity)
  IN  IF depth <= 1 THEN direct
      ELSE ExpandNeighbors(rows, {entity}, direct, depth - 1)

\* what a graph request asked for
GraphRequest(entity, target, depth) ==
  [entity |-> entity, target |-> target, depth |-> depth]

\* the repository call graph.find_paths, as the tests and the endpoint make it
FindPaths ==
  \E rows \in RowOrders(edges), source \in PathSources, target \in PathTargets,
     max_depth \in PathDepths :
    /\ resp' = [Response("find_paths", "ok",
                         find_paths(rows, source, target, max_depth, DefaultMaxPaths), <<>>)
                  EXCEPT !.request = GraphRequest(source, target, max_depth)]
    /\ UNCHANGED <<hook, tick_days, weekly_run, backend, provider, capacity, now, resources, items, edges, embeddings>>

\* graph_paths_endpoint: GET /graph/paths?source=&target=&max_depth=
graph_paths_endpoint(rows, source, target, max_depth, max_paths) ==
  find_paths(rows, source, target, Min(max_depth, MaxPathDepth), max_paths)

GraphPaths ==
  \E rows \in RowOrders(edges), source \in PathSources, max_depth \in PathDepths :
    /\ resp' = [Response("graph_paths", "ok",
                         graph_paths_endpoint(rows, source, NoneStr, max_depth,
                                              DefaultMaxPaths), <<>>)
                  EXCEPT !.request = GraphRequest(source, NoneStr, max_depth)]
    /\ UNCHANGED <<hook, tick_days, weekly_run, backend, provider, capacity, now, resources, items, edges, embeddings>>

\* graph_neighbors_endpoint: GET /graph/neighbors?entity=&depth=
GraphNeighbors ==
  \E rows \in RowOrders(edges), entity \in PathSources, depth \in NeighborDepths :
    /\ resp' = [Response("graph_neighbors", "ok",
                         get_neighbors(edges, rows, entity, depth), <<>>)
                  EXCEPT !.request = GraphRequest(entity, NoneStr, depth)]
    /\ UNCHANGED <<hook, tick_days, weekly_run, backend, provider, capacity, now, resources, items, edges, embeddings>>

\* ------------------------------------------------- GET /search?q=about X
\* the store of the entity lookups: user prefers dark_mode, dark_mode is
\* available in vscode, vscode is an editor
LookupTriples ==
  { <<"user", "prefers", "dark_mode">>,
    <<"dark_mode", "available_in", "vscode">>,
    <<"vscode", "is", "editor">> }

LookupEntities == {"user", "dark_mode"}

\* POST /v2/items with one of the triples of the lookups
CreateLookupItem ==
  /\ Len(items) < capacity
  /\ \E t \in LookupTriples, category \in RequestCategories, confidence \in Confidences :
       create_item_v2(t[1], t[2], t[3], category, confidence, "none")
  /\ UNCHANGED <<hook, tick_days, weekly_run, backend, provider, capacity, now>>

\* search_endpoint for a query that classify_intent reads as
\* EntityLookup(entity): the items found and the similarity of each
EntityLookupSearch ==
  \E ord \in SortedOrders(DOMAIN items, CreatedKey(items)),
     gord \in SortedOrders(edges, [e \in edges |-> e.weight]),
     entity \in LookupEntities, category \in SearchCategories, limit \in ListLimits :
    /\ resp' = [Response("entity_lookup", "ok",
                         _entity_lookup(backend, items, ord, edges, gord, entity,
                                        category, limit), <<>>)
                  EXCEPT !.scores = EntityLookupHits(backend, items, ord, edges, gord,
                                                     entity, category, limit),
                         !.request = [entity |-> entity, category |-> category,
                                      limit |-> limit]]
    /\ UNCHANGED <<hook, tick_days, weekly_run, backend, provider, capacity, now, resources, items, edges, embeddings>>

\* ------------------------------------------------- the time-decay pass
\* a confidence below the floor of the decay, as POST /v2/items accepts it
\* (0.0 <= confidence <= 1.0)
LowConfidences == {MinConfidence \div 2}

\* POST /v2/items with a confidence below or above the floor
CreateDecayItem ==
  /\ Len(items) < capacity
  /\ \E subject \in Subjects, predicate \in Predicates, object \in DirectObjects,
        category \in RequestCategories, confidence \in LowConfidences \cup Confidences :
       create_item_v2(subject, predicate, object, category, confidence, "none")
  /\ UNCHANGED <<hook, tick_days, weekly_run, backend, provider, capacity, now>>

\* apply_time_decay(uow) run on its own, as step 1 of the weekly maintenance
\* does
TimeDecayPass ==
  \E ord \in SortedOrders(DOMAIN items, CreatedKey(items)) :
    /\ Persist([Current EXCEPT !.items = apply_time_decay(backend, items, ord)])
    /\ resp' = [Response("time_decay", "ok", <<>>, <<>>)
                  EXCEPT !.stats = [decayed |-> DecayedCount(backend, items, ord)]]
    /\ UNCHANGED <<hook, tick_days, weekly_run, backend, provider, capacity, now>>

\* ------------------------------------- POST /jobs/weekly with statistics
\* the steps of run_weekly_maintenance
WeeklySteps == <<"decay", "propagate", "archive", "compress", "cleanup">>

\* the step of a pipeline that raises, or none
FailingSteps(steps) == {NoneStr} \cup Range(steps)

\* the steps a pipeline completes when the step fail raises: no step of
\* run_weekly_maintenance is wrapped in a try, the
\* exception leaves the function at the step that raised it
StepsBefore(steps, fail) ==
  IF fail = NoneStr THEN steps
  ELSE SubSeq(steps, 1, (CHOOSE k \in DOMAIN steps : steps[k] = fail) - 1)

\* the rows two stores of the same items differ in
ConfidenceChanges(a, b) == Cardinality({i \in DOMAIN a : a[i].confidence # b[i].confidence})

StatusChanges(a, b) == Cardinality({i \in DOMAIN a : a[i].status # b[i].status})

\* stats of run_weekly_maintenance: what each step returned, from the items
\* as each step left them.  A propagation update changes the confidence by
\* at least MIN_CHANGE_THRESHOLD, an archival and a compression each archive
\* one active row
WeeklyStats(b, st, ord, its1, its2, its3, its4, res) ==
  [decayed         |-> DecayedCount(b, st.items, ord),
   propagated      |-> ConfidenceChanges(its1, its2),
   archived        |-> StatusChanges(its2, its3),
   compressed      |-> StatusChanges(its3, its4),
   orphans_deleted |-> Cardinality({r \in DOMAIN res :
                          res[r].deleted /\ ~st.resources[r].deleted})]

\* what a maintenance endpoint answers: the statistics of the run, or the
\* error of the step that raised (log lists the steps that completed)
MaintenanceResponse(job, fail, log, stats) ==
  [Response(job, "ok", <<>>, log)
     EXCEPT !.outcome = IF fail = NoneStr THEN "ok" ELSE "error",
            !.request = [job |-> job, fail |-> fail, at |-> now],
            !.stats = IF fail = NoneStr THEN stats ELSE <<>>]

\* weekly_job: POST /jobs/weekly, with the statistics it returns; fail is
\* the step in which the storage raises, its1 .. its4 are the items as the
\* steps that completed left them
WeeklyMaintenance ==
  \E ord \in SortedOrders(DOMAIN items, CreatedKey(items)),
     gord \in SortedOrders(edges, [e \in edges |-> e.weight]),
     fail \in FailingSteps(WeeklySteps) :
    LET log == StepsBefore(WeeklySteps, fail)
        ran(step) == step \in Range(log)
    IN  \E its1 \in {IF ran("decay") THEN apply_time_decay(backend, items, ord) ELSE items} :
        \E its2 \in {IF ran("propagate")
                     THEN propagate_confidence(backend, its1, ord, edges, gord)
                     ELSE its1} :
        \E its3 \in {IF ran("archive") THEN archive_old_items(its2) ELSE its2} :
        \E its4 \in {IF ran("compress")
                     THEN compress_similar_items(backend, its3, ord) ELSE its3} :
        \E res \in {IF ran("cleanup") THEN cleanup_orphaned_resources(resources, its4)
                    ELSE resources} :
          /\ Persist(get_unit_of_work(backend, Current,
                                      [Current EXCEPT !.items = its4, !.resources = res],
                                      fail # NoneStr))
          /\ resp' = MaintenanceResponse("weekly", fail, log,
                       WeeklyStats(backend, Current, ord, its1, its2, its3, its4, res))
          /\ UNCHANGED <<hook, tick_days, weekly_run, backend, provider, capacity, now>>

\* ------------------------------------------------ GET /context?max_chars=
\* len(header) for header = "## User Memory Context\n"
HeaderLen == 23

ContextCategories == {"preferences", "facts"}

\* the length of the summary a category row holds; 0 stands for the default
\* summary, which summarize has not rewritten yet
SummaryLens == {0, 12}

\* max_chars of the request: less than the header, room for the header
\* alone, for one block of one item, for two of them; 0 stands for None, the
\* request of Context above
NoMaxChars == 0

MaxCharsChoices == {10, 30, 61, 100}

\* len("No memory context available.")
NoContextLen == 28

\* len() of the strings of the model; None is formatted as "None"
StrLen(text) ==
  CASE text = "Alice" -> 5
    [] text = "likes" -> 5
    [] text = "Python" -> 6
    [] text = "py" -> 2
    [] text = "preferences" -> 11
    [] text = "facts" -> 5
    [] text = "**Recent:**" -> 11
    [] OTHER -> 4

\* one line of the context: the category block it belongs to, what it is,
\* the item it shows and its length
Line(category, kind, item, len) ==
  [category |-> category, kind |-> kind, item |-> item, len |-> len]

\* f"- {item.subject} {item.predicate}{obj_part}"
ItemLine(category, e, id) ==
  Line(category, "item", id,
       2 + StrLen(e.subject) + 1 + StrLen(e.predicate)
         + (IF e.object # NoneStr THEN 1 + StrLen(e.object) ELSE 0))

\* block_lines of one category: "### Name", the rewritten summary and an
\* empty line, "**Recent:**" under a rewritten summary, one line per listed
\* item and an empty line
BlockLines(b, its, rows, name, summary_len) ==
  LET summarised == summary_len > 0
  IN  <<Line(name, "heading", NoId, 4 + StrLen(name))>>
      \o (IF summarised
          THEN <<Line(name, "summary", NoId, summary_len), Line(name, "blank", NoId, 0)>>
          ELSE <<>>)
      \o (IF rows # <<>>
          THEN (IF summarised
                THEN <<Line(name, "recent", NoId, StrLen("**Recent:**"))>> ELSE <<>>)
               \o Rows([k \in DOMAIN rows |-> ItemLine(name, ToEntity(b, its, rows[k]), rows[k])])
               \o <<Line(name, "blank", NoId, 0)>>
          ELSE <<>>)

\* len("\n".join(lines))
TextLen(lines) == SumSeq([k \in DOMAIN lines |-> lines[k].len]) + Len(lines) - 1

\* blocks of get_tiered_context: one block per category, in the order of the
\* priorities; a category without listed items and without a rewritten
\* summary is skipped
RECURSIVE ContextBlocks(_, _, _, _, _, _)
ContextBlocks(b, its, ord, categories, summaries, max_items_per_category) ==
  IF categories = <<>> THEN <<>>
  ELSE LET name == Head(categories)
           rows == ItemList(b, its, ord, name, "active", max_items_per_category)
           rest == ContextBlocks(b, its, ord, Tail(categories), summaries,
                                 max_items_per_category)
       IN  IF rows = <<>> /\ summaries[name] = 0 THEN rest
           ELSE <<[name |-> name, lines |-> BlockLines(b, its, rows, name, summaries[name])]>>
                \o rest

\* all lines of the blocks, one after the other
RECURSIVE FlattenBlocks(_)
FlattenBlocks(blocks) ==
  IF blocks = <<>> THEN <<>> ELSE Head(blocks).lines \o FlattenBlocks(Tail(blocks))

\* variant: the text is cut at the last line that fits into max_chars
RECURSIVE LinesWithin(_, _, _)
LinesWithin(lines, max_chars, current_len) ==
  IF lines = <<>> THEN <<>>
  ELSE IF max_chars # NoMaxChars /\ current_len + Head(lines).len + 1 > max_chars THEN <<>>
  ELSE <<Head(lines)>> \o LinesWithin(Tail(lines), max_chars, current_len + Head(lines).len + 1)

\* the truncation loop of get_tiered_context: a block is appended whole
\* unless max_chars is set and current_len + len(block) + 1 exceeds it; the
\* first block that does not fit ends the loop
RECURSIVE BlocksWithin(_, _, _)
BlocksWithin(blocks, max_chars, current_len) ==
  IF blocks = <<>> THEN <<>>
  ELSE LET block_len == TextLen(Head(blocks).lines) + 1
       IN  IF max_chars # NoMaxChars /\ current_len + block_len > max_chars THEN <<>>
           ELSE Head(blocks).lines
                \o BlocksWithin(Tail(blocks), max_chars, current_len + block_len)

\* variant: result_parts cut by lines
TruncateByLines(blocks, max_chars) ==
  LinesWithin(FlattenBlocks(blocks), max_chars, HeaderLen)

\* result_parts after the header
TruncateByBlocks(blocks, max_chars) == BlocksWithin(blocks, max_chars, HeaderLen)

\* the text get_tiered_context returns, line by line: the header, then the
\* blocks that fit
TieredContextText(blocks, max_chars) ==
  <<Line(NoneStr, "header", NoId, HeaderLen)>> \o TruncateByBlocks(blocks, max_chars)

\* POST /v2/items into one of two categories
CreateContextItem ==
  /\ Len(items) < capacity
  /\ \E subject \in Subjects, predicate \in Predicates, object \in DirectObjects,
        category \in ContextCategories, confidence \in FactConfidences :
       create_item_v2(subject, predicate, object, category, confidence, "none")
  /\ UNCHANGED <<hook, tick_days, weekly_run, backend, provider, capacity, now>>

\* context_endpoint: GET /context with max_chars; the response carries the
\* text and, as its request, max_chars and the blocks that were built
ContextMaxChars ==
  \E ord \in SortedOrders(DOMAIN items, CreatedKey(items)),
     order \in RowOrders(CategoriesWithItems(items)),
     summaries \in [CategoriesWithItems(items) -> SummaryLens],
     limit \in ListLimits, max_chars \in MaxCharsChoices :
    LET blocks == ContextBlocks(backend, items, ord, order, summaries, limit)
        text   == IF order = <<>> THEN <<>> ELSE TieredContextText(blocks, max_chars)
        shown(l) == l.kind = "item"
        lines  == SelectSeq(text, shown)
    IN  /\ resp' = [Response("context", "ok", Rows([k \in DOMAIN lines |-> lines[k].item]), <<>>)
                      EXCEPT !.text = text,
                             !.request = [max_chars |-> max_chars, blocks |-> blocks]]
        /\ UNCHANGED <<hook, tick_days, weekly_run, backend, provider, capacity, now, resources, items, edges, embeddings>>

\* ------------------------------------------- entity_resolution.py, by character
\* a text is the sequence of its characters; a character outside ASCII is
\* written as its code point
Letters == <<"a", "b", "c", "d", "e", "f", "g", "h", "i", "j", "k", "l", "m",
             "n", "o", "p", "q", "r", "s", "t", "u", "v", "w", "x", "y", "z">>

Capitals == <<"A", "B", "C", "D", "E", "F", "G", "H", "I", "J", "K", "L", "M",
              "N", "O", "P", "Q", "R", "S", "T", "U", "V", "W", "X", "Y", "Z">>

Whitespace == {" ", "\t", "\n"}

\* str.lower() and str.upper() of one character
LowerChar(c) ==
  IF \E i \in DOMAIN Capitals : Capitals[i] = c
  THEN Letters[CHOOSE i \in DOMAIN Capitals : Capitals[i] = c] ELSE c

UpperChar(c) ==
  IF \E i \in DOMAIN Letters : Letters[i] = c
  THEN Capitals[CHOOSE i \in DOMAIN Letters : Letters[i] = c] ELSE c

\* text.strip(): the whitespace at both ends is dropped
RECURSIVE LStrip(_)
LStrip(text) ==
  IF text # <<>> /\ Head(text) \in Whitespace THEN LStrip(Tail(text)) ELSE text

RECURSIVE RStrip(_)
RStrip(text) ==
  IF text # <<>> /\ text[Len(text)] \in Whitespace
  THEN RStrip(SubSeq(text, 1, Len(text) - 1)) ELSE text

\* re.sub(r"\s+", " ", text): every run of whitespace becomes one space
RECURSIVE CollapseWhitespace(_)
CollapseWhitespace(text) ==
  IF text = <<>> THEN <<>>
  ELSE IF Head(text) \in Whitespace
  THEN <<" ">> \o CollapseWhitespace(LStrip(text))
  ELSE <<Head(text)>> \o CollapseWhitespace(Tail(text))

\* normalize_entity: strip, lower, collapse whitespace
NormalizeEntityChars(text) ==
  LET stripped == RStrip(LStrip(text))
  IN  CollapseWhitespace(Rows([k \in DOMAIN stripped |-> LowerChar(stripped[k])]))

\* variant: an alias table in which the value of "pg" is itself a key
ChainedAliasTable ==
  { <<<<"p", "g">>, <<"p", "o", "s", "t", "g", "r", "e", "s">>>>,
    <<<<"p", "o", "s", "t", "g", "r", "e", "s">>,
      <<"p", "o", "s", "t", "g", "r", "e", "s", "q", "l">>>> }

\* BUILTIN_ALIASES: every (key, value) of the table
BuiltinAliasTable ==
  {
    <<<<"U+6211">>, <<"u", "s", "e", "r">>>>,
    <<<<"i">>, <<"u", "s", "e", "r">>>>,
    <<<<"m", "e">>, <<"u", "s", "e", "r">>>>,
    <<<<"m", "y", "s", "e", "l", "f">>, <<"u", "s", "e", "r">>>>,
    <<<<"U+4F7F", "U+7528", "U+8005">>, <<"u", "s", "e", "r">>>>,
    <<<<"U+7528", "U+6236">>, <<"u", "s", "e", "r">>>>,
    <<<<"U+672C", "U+4EBA">>, <<"u", "s", "e", "r">>>>,
    <<<<"j", "s">>, <<"j", "a", "v", "a", "s", "c", "r", "i", "p", "t">>>>,
    <<<<"t", "s">>, <<"t", "y", "p", "e", "s", "c", "r", "i", "p", "t">>>>,
    <<<<"p", "y">>, <<"p", "y", "t", "h", "o", "n">>>>,
    <<<<"r", "b">>, <<"r", "u", "b", "y">>>>,
    <<<<"r", "s">>, <<"r", "u", "s", "t">>>>,
    <<<<"v", "i", "m">>, <<"n", "e", "o", "v", "i", "m">>>>,
    <<<<"p", "g">>, <<"p", "o", "s", "t", "g", "r", "e", "s", "q", "l">>>>,
    <<<<"p", "o", "s", "t", "g", "r", "e", "s">>, <<"p", "o", "s", "t", "g", "r", "e", "s", "q", "l">>>>,
    <<<<"m", "o", "n", "g", "o">>, <<"m", "o", "n", "g", "o", "d", "b">>>>,
    <<<<"k", "8", "s">>, <<"k", "u", "b", "e", "r", "n", "e", "t", "e", "s">>>>,
    <<<<"t", "f">>, <<"t", "e", "r", "r", "a", "f", "o", "r", "m">>>>,
    <<<<"g", "h">>, <<"g", "i", "t", "h", "u", "b">>>>,
    <<<<"m", "a", "c">>, <<"m", "a", "c", "o", "s">>>>,
    <<<<"o", "s", "x">>, <<"m", "a", "c", "o", "s">>>>,
    <<<<"w", "i", "n">>, <<"w", "i", "n", "d", "o", "w", "s">>>>
  }

AliasKeys == {p[1] : p \in BuiltinAliasTable}

AliasValues == {p[2] : p \in BuiltinAliasTable}

\* BUILTIN_ALIASES.get(normalized, normalized)
AliasGet(normalized) ==
  IF normalized \in AliasKeys
  THEN (CHOOSE p \in BuiltinAliasTable : p[1] = normalized)[2]
  ELSE normalized

\* resolve_entity, by character
ResolveEntityChars(text) == AliasGet(NormalizeEntityChars(text))

\* the texts resolved: the keys and the values of the table and two names
\* outside it, as they are, capitalised, and with whitespace around them and
\* inside them
ResolveWords ==
  AliasKeys \cup AliasValues \cup {<<"a", "l", "i", "c", "e">>, <<"m", "a", "c", " ", "\t", "o", "s">>}

Capitalised(text) == Rows([k \in DOMAIN text |-> UpperChar(text[k])])

ResolveInputs ==
  UNION {{w, Capitalised(w), <<" ">> \o w, w \o <<"\t", " ">>,
          <<"\n">> \o Capitalised(w) \o <<" ">>} : w \in ResolveWords}

\* resolve_entity(text) for one of the texts
ResolveEntity ==
  \E text \in ResolveInputs :
    /\ resp' = [Response("resolve_entity", "ok", <<>>, <<>>)
                  EXCEPT !.request = [text |-> text],
                         !.text = ResolveEntityChars(text)]
    /\ UNCHANGED <<hook, tick_days, weekly_run, backend, provider, capacity, now, resources, items, edges, embeddings>>

\* resolve_entity applied to the canonical form it returned before
ResolveAgain ==
  /\ resp.op = "resolve_entity"
  /\ resp' = [Response("resolve_entity", "ok", <<>>, <<>>)
                EXCEPT !.request = [text |-> resp.text],
                       !.text = ResolveEntityChars(resp.text)]
  /\ UNCHANGED <<hook, tick_days, weekly_run, backend, provider, capacity, now, resources, items, edges, embeddings>>

\* ---------------------------------------- GET /search, semantic strategy
\* min_similarity of smart_search: the lowest similarity of a vector hit
DefaultMinSimilarity == 500

\* the dict _semantic_search returns: intent, the items and the similarity
\* of each.  The try block embeds the query and searches the vectors (raises
\* says that one of the two calls raised; the embedding raises whenever the
\* provider is unavailable); without a result of the category, or after the
\* exception, the recent active items are listed with similarity 0.0
\* variant: the exception of the try block reaches the caller
SemanticSearchRaising(b, its, emb, ord, hits, category, limit, raises) ==
  LET inCategory(i) == category # NoneStr => its[i].category = category
      results == SelectSeq(EmbeddingSearch(its, emb, ord, hits, limit), inCategory)
      recent  == ItemList(b, its, SortDesc(CreatedKey(its), ord), category, "active", limit)
  IN  IF raises \/ ~provider
      THEN [intent |-> "error", items |-> <<>>, similarity |-> <<>>]
      ELSE IF results # <<>>
      THEN [intent |-> "SemanticSearch", items |-> results,
            similarity |-> [k \in DOMAIN results |-> DefaultMinSimilarity]]
      ELSE [intent |-> "SemanticSearch(fallback)", items |-> recent,
            similarity |-> [k \in DOMAIN recent |-> 0]]

SemanticSearchResponse(b, its, emb, ord, hits, category, limit, raises) ==
  LET inCategory(i) == category # NoneStr => its[i].category = category
      results == IF raises \/ ~provider THEN <<>>
                 ELSE SelectSeq(EmbeddingSearch(its, emb, ord, hits, limit), inCategory)
      recent  == ItemList(b, its, SortDesc(CreatedKey(its), ord), category, "active", limit)
  IN  IF results # <<>>
      THEN [intent |-> "SemanticSearch", items |-> results,
            similarity |-> [k \in DOMAIN results |-> DefaultMinSimilarity]]
      ELSE [intent |-> "SemanticSearch(fallback)", items |-> recent,
            similarity |-> [k \in DOMAIN recent |-> 0]]

\* search_endpoint for a free-text query that is close to no stored vector
\* or to all of them: the response carries the items, their similarities
\* and, as its request, the intent string, the parameters and what became
\* of the vector search
SemanticSearch ==
  \E ord \in RowOrders(DOMAIN items), hits \in {{}, embeddings},
     category \in SearchCategories, limit \in ListLimits, raises \in BOOLEAN :
    LET r == SemanticSearchResponse(backend, items, embeddings, ord, hits, category,
                                    limit, raises)
        found == EmbeddingSearch(items, embeddings, ord, hits, limit)
    IN  /\ resp' = [Response("semantic_search", IF r.intent = "error" THEN "error" ELSE "ok",
                             r.items, <<>>)
                      EXCEPT !.op = "semantic_search",
                             !.scores = Rows(r.similarity),
                             !.request = [intent |-> r.intent, category |-> category,
                                          limit |-> limit,
                                          raised |-> raises \/ ~provider,
                                          found |-> IF raises \/ ~provider THEN 0
                                                    ELSE Len(found)]]
        /\ UNCHANGED <<hook, tick_days, weekly_run, backend, provider, capacity, now, resources, items, edges, embeddings>>

\* ------------------------------------------- merge_duplicates on its own
\* duplicates of find_duplicate_items: the (older, newer) pairs
DuplicatePairs(its, ord) ==
  LET older == find_duplicate_items(its, ord)
      paired(i) == older[i] # NoId
      newer == SelectSeq(Rows([i \in DOMAIN its |-> i]), paired)
  IN  Rows([k \in DOMAIN newer |-> <<older[newer[k]], newer[k]>>])

\* merge_duplicates(session) and its flush, as step 1 of the nightly
\* consolidation runs it; the response lists the pairs it merged
MergeDuplicatesPass ==
  \E ord \in SortedOrders(DOMAIN items, CreatedKey(items)) :
    /\ Persist([Current EXCEPT !.items = merge_duplicates(items, ord)])
    /\ resp' = Response("merge_duplicates", "ok", <<>>, DuplicatePairs(items, ord))
    /\ UNCHANGED <<hook, tick_days, weekly_run, backend, provider, capacity, now>>

\* ------------------------------- POST /v2/items, two spellings of a subject
\* two raw subjects with one canonical form
SubjectSpellings == {"Alice", "alice"}

CreateSpelledItem ==
  /\ Len(items) < capacity
  /\ \E subject \in SubjectSpellings, predicate \in Predicates, object \in Objects,
        category \in RequestCategories, confidence \in Confidences :
       create_item_v2(subject, predicate, object, category, confidence, "none")
  /\ UNCHANGED <<hook, tick_days, weekly_run, backend, provider, capacity, now>>

\* ------------------------- POST /jobs/weekly overlapping another request
\* the run up to the first await that another request can overtake:
\* apply_time_decay has listed the active items
WeeklyBegin ==
  /\ ~weekly_run.open
  /\ \E ord \in SortedOrders(DOMAIN items, CreatedKey(items)) :
       weekly_run' = WeeklyRun(TRUE,
                               ItemList(backend, items, ord, NoneStr, "active", JobListLimit),
                               Rows([i \in DOMAIN items |-> ToEntity(backend, items, i)]))
  /\ UNCHANGED <<hook, tick_days, backend, provider, capacity, now, resources, items, edges,
               embeddings, resp>>

\* variant: the write-back of apply_time_decay touches the confidence column
\* alone
DecayWritesConfidenceOnly(b, its, cur, rs) ==
  Rows([i \in DOMAIN cur |->
     IF (\E k \in DOMAIN rs : rs[k] = i) /\ i \in DOMAIN its /\ NeedsDecay(its[i])
     THEN [cur[i] EXCEPT !.confidence = DecayFloor(DecayedConfidence(its[i]))]
     ELSE cur[i]])

\* the write-backs of apply_time_decay from the entities listed at the
\* start, over the rows as they are now
DecayWriteBack(b, its, cur, rs) == DecayLoop(b, its, cur, rs)

\* the rest of the run and its commit: the entities listed at the start are
\* written back over the rows as they are now, the later steps list again
WeeklyFinish ==
  /\ weekly_run.open
  /\ \E ord \in SortedOrders(DOMAIN items, CreatedKey(items)),
        gord \in SortedOrders(edges, [e \in edges |-> e.weight]) :
       \E its1 \in {DecayWriteBack(backend, weekly_run.items, items, weekly_run.rows)} :
         \E its2 \in {propagate_confidence(backend, its1, ord, edges, gord)} :
           \E its4 \in {compress_similar_items(backend, archive_old_items(its2), ord)} :
             Persist(get_unit_of_work(backend, Current,
                       [Current EXCEPT !.items = its4,
                                       !.resources = cleanup_orphaned_resources(resources, its4)],
                       FALSE))
  /\ weekly_run' = NoRun
  /\ resp' = Response("job", "ok", <<>>, <<>>)
  /\ UNCHANGED <<hook, tick_days, backend, provider, capacity, now>>

\* ------------------------------------------------------ POST /process
\* "Find resources without items": the rows no item refers to
Unextracted(res, its) ==
  {r \in DOMAIN res : ~res[r].deleted /\ \A i \in DOMAIN its : its[i].resource_id # r}

\* the query of process_pending_resources: ORDER BY created_at LIMIT limit;
\* ord is the order in which the backend yields rows of equal created_at
PendingResources(res, its, ord, limit) ==
  LET pending(r) == r \in Unextracted(res, its)
  IN  Take(SortAsc([r \in DOMAIN res |-> res[r].created_at], SelectSeq(ord, pending)), limit)

\* what extract_facts may return for a resource
FactsOf(resource) == IF resource.content = "blank" THEN {<<>>} ELSE FactLists

\* the loop of process_pending_resources: extract_and_store for each selected
\* resource; a failure is swallowed and not counted
RECURSIVE ProcessLoop(_, _, _, _)
ProcessLoop(st, selected, facts, raises) ==
  IF selected = <<>> THEN [store |-> st, count |-> 0]
  ELSE LET r    == Head(selected)
           st1  == IF r \in raises THEN st ELSE ExtractAndStore(st, r, facts[r])
           rest == ProcessLoop(st1, Tail(selected), facts, raises)
       IN  [rest EXCEPT !.count = @ + (IF r \in raises THEN 0 ELSE 1)]

\* the limits of the calls to POST /process
ProcessLimits == {1}

\* process_endpoint: POST /process?limit=; the response lists the resources
\* on which extraction was attempted
ProcessPending ==
  \E ord \in RowOrders(DOMAIN resources), limit \in ProcessLimits :
    \E selected \in {PendingResources(resources, items, ord, limit)} :
      \E facts \in [DOMAIN resources -> FactLists], raises \in SUBSET Range(selected) :
        /\ \A r \in DOMAIN resources :
             /\ facts[r] \in FactsOf(resources[r])
             /\ r \notin Range(selected) \ raises => facts[r] = <<>>
        /\ Len(items) + Cardinality({r \in DOMAIN resources : facts[r] # <<>>}) <= capacity
        /\ \E out \in {ProcessLoop(Current, selected, facts, raises)} :
             /\ Persist(get_unit_of_work(backend, Current, out.store, FALSE))
             /\ resp' = [Response("process", "ok", selected, <<>>)
                           EXCEPT !.stats = [processed |-> out.count]]
        /\ UNCHANGED <<hook, tick_days, weekly_run, backend, provider, capacity, now>>

\* ------------------------------------- post-tool-hook.py, the invocations
\* should_trigger(session_key, current_count, state), for a session that the
\* loaded state holds
should_trigger(session_state, current_count, clock) ==
  /\ session_state.present
  /\ session_state.last_capture # NoCapture
       => clock - session_state.last_capture >= MIN_INTERVAL_SECONDS
  /\ current_count - session_state.message_count >= MIN_NEW_MESSAGES

\* the wall clock passes
HookTick ==
  /\ hook.clock < MaxHookClock
  /\ hook' = [hook EXCEPT !.clock = @ + MIN_INTERVAL_SECONDS]
  /\ UNCHANGED <<tick_days, weekly_run, backend, provider, capacity, now, resources, items,
                 edges, embeddings, resp>>

\* the conversation of a session goes on
AddMessages ==
  \E s \in Sessions :
    /\ hook.transcript[s] < MaxMessages
    /\ hook' = [hook EXCEPT !.transcript[s] = @ + MessageStep]
    /\ UNCHANGED <<tick_days, weekly_run, backend, provider, capacity, now, resources, items,
                   edges, embeddings, resp>>

\* main() up to load_throttle_state: the process counts the messages of its
\* transcript and reads the file
HookLoad ==
  \E p \in Procs, s \in Sessions :
    /\ hook.procs[p].pc = "idle"
    /\ hook' = [hook EXCEPT !.procs[p] = HookProc("loaded", s, hook.transcript[s], hook.file)]
    /\ UNCHANGED <<tick_days, weekly_run, backend, provider, capacity, now, resources, items,
                   edges, embeddings, resp>>

\* what the invocation did, as the log and the process table show it:
\* elapsed is the time since the last worker spawned for the session (NoCapture
\* when there was none), new_messages the messages added since the count of
\* that spawn or of the initialisation, stale whether the file was written
\* after the process had loaded it
HookOutcome(session, spawned, first, elapsed, new_messages, stale) ==
  [session |-> session, spawned |-> spawned, first |-> first, elapsed |-> elapsed,
   new_messages |-> new_messages, stale |-> stale]

\* the rest of main(): a session missing from the loaded state is initialised
\* and saved; otherwise should_trigger decides, the worker is spawned and the
\* loaded state, with the entry of the session replaced, is written over the
\* file
HookFinish ==
  \E p \in Procs :
    LET proc  == hook.procs[p]
        s     == proc.session
        entry == proc.state[s]
        known == hook.captured[s]
        fire  == entry.present /\ should_trigger(entry, proc.current_count, hook.clock)
        saved == IF ~entry.present
                 THEN [proc.state EXCEPT ![s] = SessionState(TRUE, NoCapture, proc.current_count)]
                 ELSE [proc.state EXCEPT ![s] = SessionState(TRUE, hook.clock, proc.current_count)]
        outcome == HookOutcome(s, fire, ~known.present,
                     IF known.last_capture = NoCapture THEN NoCapture
                     ELSE hook.clock - known.last_capture,
                     proc.current_count - known.message_count,
                     hook.file # proc.state)
    IN  /\ proc.pc = "loaded"
        /\ hook' = [hook EXCEPT
                      !.procs[p] = Idle,
                      !.file = IF ~entry.present \/ fire THEN saved ELSE @,
                      !.captured[s] =
                        IF fire THEN SessionState(TRUE, hook.clock, proc.current_count)
                        ELSE IF ~entry.present /\ known.last_capture = NoCapture
                        THEN SessionState(TRUE, NoCapture,
                                          IF known.present
                                          THEN Min(known.message_count, proc.current_count)
                                          ELSE proc.current_count)
                        ELSE @]
        /\ resp' = [Response("post_tool_hook", "ok", <<>>, <<>>) EXCEPT !.request = outcome]
        /\ UNCHANGED <<tick_days, weekly_run, backend, provider, capacity, now, resources, items,
                       edges, embeddings>>

\* ------------------------------------------------------ specifications
\* the item lifecycle: creation, conflict resolution and maintenance
Next ==
  \/ Tick
  \/ Ingest
  \/ CreateItemV2
  \/ Extract
  \/ NightlyJob
  \/ WeeklyJob
  \/ MonthlyJob

Spec == Init /\ [][Next]_vars

\* the request handlers with the step that raises
NextUow ==
  \/ Ingest
  \/ IngestFails
  \/ IngestV2
  \/ IngestV2Fails
  \/ CreateItemV2
  \/ CreateItemV2Fails
  \/ CreateItemMeta
  \/ CreateItemMetaFails
  \/ Extract
  \/ ExtractFails

SpecUow == InitUow /\ [][NextUow]_vars

\* search and context over a store that direct requests fill and the weekly
\* job archives
NextRead ==
  \/ Tick
  \/ CreateItemV2
  \/ WeeklyJob
  \/ SmartSearch
  \/ Context

SpecRead == InitUow /\ [][NextRead]_vars

\* meta-facts next to the items, the jobs that index the items and the
\* listings
NextMeta ==
  \/ CreateItemV2
  \/ CreateItemMeta
  \/ WeeklyJob
  \/ MonthlyJob
  \/ ListItems
  \/ ListCategories
  \/ SmartSearch

SpecMeta == InitUow /\ [][NextMeta]_vars

\* creation and conflict resolution alone, over a store of one more row
NextConflict ==
  \/ Tick
  \/ Ingest
  \/ CreateItemV2
  \/ Extract

SpecConflict == InitConflict /\ [][NextConflict]_vars

\* the item lifecycle over a store into which one resource has been
\* ingested (the state Ingest leaves behind): creation, extraction with
\* conflict resolution, and the three maintenance jobs
InitItems ==
  /\ backend \in Backends
  /\ weekly_run = NoRun
  /\ tick_days \in Ticks
  /\ hook = NoHook
  /\ provider = FALSE
  /\ capacity = MaxItems
  /\ now = 0
  /\ resources = <<NewResource>>
  /\ items = <<>>
  /\ edges = {}
  /\ embeddings = {}
  /\ resp = Response("ingest", "ok", <<>>, <<>>)

NextItems ==
  \/ Tick
  \/ CreateItemV2
  \/ Extract
  \/ NightlyJob
  \/ WeeklyJob
  \/ MonthlyJob

SpecItems == InitItems /\ [][NextItems]_vars

\* the graph traversals over every graph made of at most MaxGraphEdges rows
\* of GraphEdgeRows
InitGraph ==
  /\ backend \in Backends
  /\ weekly_run = NoRun
  /\ tick_days \in Ticks
  /\ hook = NoHook
  /\ provider = FALSE
  /\ capacity = MaxItems
  /\ now = 0
  /\ resources = <<>>
  /\ items = <<>>
  /\ edges \in {g \in SUBSET GraphEdgeRows : Cardinality(g) <= MaxGraphEdges}
  /\ embeddings = {}
  /\ resp = Response("init", "ok", <<>>, <<>>)

NextGraph ==
  \/ FindPaths
  \/ GraphPaths
  \/ GraphNeighbors

SpecGraph == InitGraph /\ [][NextGraph]_vars

\* entity lookups over a store that direct requests fill with the triples of
\* the lookups
NextLookup ==
  \/ CreateLookupItem
  \/ EntityLookupSearch

SpecLookup == InitConflict /\ [][NextLookup]_vars

\* the time-decay pass over items created below and above its floor
NextDecay ==
  \/ Tick
  \/ CreateDecayItem
  \/ TimeDecayPass

SpecDecay == Init /\ [][NextDecay]_vars

\* the weekly maintenance over the items of the lookups, with the
\* statistics it returns and a step that may raise
NextMaint ==
  \/ Tick
  \/ CreateLookupItem
  \/ WeeklyMaintenance

SpecMaint == InitItems /\ [][NextMaint]_vars

\* the context of a store with two categories, cut at max_chars
NextContext ==
  \/ CreateContextItem
  \/ ContextMaxChars

SpecContext == Init /\ [][NextContext]_vars

\* entity resolution as a function of the text
NextResolve ==
  \/ ResolveEntity
  \/ ResolveAgain

SpecResolve == Init /\ [][NextResolve]_vars

\* the semantic search over a store that direct requests fill and the
\* weekly job archives
NextSemantic ==
  \/ Tick
  \/ CreateItemV2
  \/ WeeklyJob
  \/ SemanticSearch

SpecSemantic == InitUow /\ [][NextSemantic]_vars

\* the duplicate merge over a store that direct requests fill
NextMerge ==
  \/ Tick
  \/ CreateItemV2
  \/ MergeDuplicatesPass

SpecMerge == InitConflict /\ [][NextMerge]_vars

\* the weekly job over items whose subjects are spelled in two ways
NextCompress ==
  \/ Tick
  \/ CreateSpelledItem
  \/ WeeklyJob

SpecCompress == Init /\ [][NextCompress]_vars

\* a weekly run that other requests may overtake between its first listing
\* and its commit
InitOverlap ==
  /\ backend \in Backends
  /\ weekly_run = NoRun
  /\ tick_days = ShortTick
  /\ hook = NoHook
  /\ provider = FALSE
  /\ capacity = MaxItems
  /\ now = 0
  /\ resources = <<NewResource>>
  /\ items = <<>>
  /\ edges = {}
  /\ embeddings = {}
  /\ resp = Response("init", "ok", <<>>, <<>>)

NextOverlap ==
  \/ Tick
  \/ CreateItemV2
  \/ Extract
  \/ WeeklyBegin
  \/ WeeklyFinish

SpecOverlap == InitOverlap /\ [][NextOverlap]_vars

\* POST /process called again and again over resources ingested before, with
\* no further ingest; every call that can change the store is made
\* eventually
ResourceContents == {"text", "blank"}

InitProcess ==
  /\ backend \in Backends
  /\ weekly_run = NoRun
  /\ tick_days \in Ticks
  /\ hook = NoHook
  /\ provider = FALSE
  /\ capacity = MaxItems
  /\ now = MaxClock
  /\ resources \in UNION {[1..n -> {Resource(t, c) : t \in 0..MaxClock, c \in ResourceContents}]
                            : n \in 1..(MaxResources + 1)}
  /\ items = <<>>
  /\ edges = {}
  /\ embeddings = {}
  /\ resp = Response("init", "ok", <<>>, <<>>)

NextProcess == ProcessPending

SpecProcess == InitProcess /\ [][NextProcess]_vars /\ WF_vars(ProcessPending)

\* the PostToolUse hooks of two sessions, run by processes that may overlap
InitHook ==
  /\ backend = "postgres"
  /\ weekly_run = NoRun
  /\ tick_days = LongTick
  /\ hook = NoHook
  /\ provider = FALSE
  /\ capacity = MaxItems
  /\ now = 0
  /\ resources = <<>>
  /\ items = <<>>
  /\ edges = {}
  /\ embeddings = {}
  /\ resp = Response("init", "ok", <<>>, <<>>)

NextHook ==
  \/ HookTick
  \/ AddMessages
  \/ HookLoad
  \/ HookFinish

SpecHook == InitHook /\ [][NextHook]_vars

\* ------------------------------------------------------------- properties
\* the canonical triple of an item, whichever backend stores it
CanonicalTriple(item) == <<Canon(item.subject), item.predicate, Canon(item.object)>>

\* C1: at any time at most one active item (meta-facts aside) exists for each
\* (canonical_subject, predicate, canonical_object), after any sequence of
\* item creations, conflict resolutions and maintenance runs
C1_OneActivePerTriple ==
  \A i, j \in DOMAIN items :
    (/\ i # j
     /\ items[i].status = "active" /\ items[j].status = "active"
     /\ items[i].meta_about = NoId /\ items[j].meta_about = NoId)
    => CanonicalTriple(items[i]) # CanonicalTriple(items[j])

Persisted == <<resources, items, edges, embeddings>>

\* C3: a request that ends in an uncaught error leaves nothing of its own
\* mutations in the store, on either backend
C3_FailedRequestPersistsNothing ==
  [][resp'.outcome = "error" => Persisted' = Persisted]_vars

C5_LoserArchivedWinnerActive ==
  \A k \in DOMAIN resp.log :
    /\ resp.log[k].loser_status = "archived"
    /\ resp.log[k].winner_status = "active"
    /\ resp.log[k].winner_supersedes = resp.log[k].loser

\* C6: a resolution between the new item and an existing one that ties under
\* the strategy is won by the new item
C6_TieFavoursNewItem ==
  \A k \in DOMAIN resp.log :
    resp.log[k].tie => /\ resp.log[k].winner = resp.log[k].item
                       /\ resp.log[k].loser = resp.log[k].conflict

\* the ids met by following supersedes from row i for at most n steps
RECURSIVE SupersedesChain(_, _, _)
SupersedesChain(its, i, n) ==
  IF i = NoId \/ n = 0 THEN {}
  ELSE {i} \cup SupersedesChain(its, its[i].supersedes, n - 1)

PlainCategories ==
  {items[i].category : i \in {j \in DOMAIN items :
      /\ items[j].meta_about = NoId
      /\ items[j].status = "active"
      /\ items[j].category # NoneStr}}

\* C8: no listing and no search returns a meta-fact, the category names come
\* from items that are not meta-facts, no meta-fact has an embedding and no
\* graph edge is made of one
C8_MetaFactsExcluded ==
  /\ resp.op \in {"list_items", "smart_search"} =>
       \A k \in DOMAIN resp.results : items[resp.results[k]].meta_about = NoId
  /\ resp.op = "list_categories" => resp.names \subseteq PlainCategories
  /\ \A i \in embeddings : items[i].meta_about = NoId
  /\ \A e \in edges : e.predicate \notin MetaPredicates /\ e.object \notin MetaObjects

\* C9: every item returned by smart_search and every item line of the tiered
\* context belongs to an active item
C9_OnlyActiveInResults ==
  resp.op \in {"smart_search", "context"} =>
    \A k \in DOMAIN resp.results : items[resp.results[k]].status = "active"

\* a search has returned an item while the store holds an archived one
C9_Witness ==
  /\ resp.op = "smart_search"
  /\ resp.results # <<>>
  /\ \E i \in DOMAIN items : items[i].status = "archived"

\* C10: the subject and the object of every stored graph edge are their own
\* canonical form
C10_EdgesCanonical ==
  \A e \in edges :
    /\ e.subject = resolve_entity(e.subject)
    /\ e.object = resolve_entity(e.object)

NoDuplicates(s) == \A i, j \in DOMAIN s : i # j => s[i] # s[j]

\* the product of the weights of the edges, taken from the first edge on
RECURSIVE WeightProduct(_)
WeightProduct(es) ==
  IF es = <<>> THEN DefaultEdgeWeight
  ELSE WeightTimes(WeightProduct(SubSeq(es, 1, Len(es) - 1)), es[Len(es)].weight)

\* a simple path from source: no entity twice, one edge per hop, each edge
\* joining its two hops, the weight the product of the edge weights
WellFormedPath(p, source) ==
  /\ p.hops[1] = source
  /\ p.source = source
  /\ NoDuplicates(p.hops)
  /\ Len(p.edges) = Len(p.hops) - 1
  /\ \A k \in DOMAIN p.edges :
       {p.hops[k], p.hops[k + 1]} = {p.edges[k].subject, p.edges[k].object}
  /\ p.weight = WeightProduct(p.edges)

\* C11: every path returned by find_paths starts at the source, visits no
\* entity twice, has one edge less than hops, and its weight is the product
\* of the weights of its edges
C11_PathsWellFormed ==
  resp.op \in {"find_paths", "graph_paths"} =>
    \A k \in DOMAIN resp.results : WellFormedPath(resp.results[k], resp.request.entity)

\* find_paths has returned a path of two hops or more, of a weight below 1.0,
\* over a graph that holds the cycle a - b - c and the self-loop at c
C11_Witness ==
  /\ resp.op = "find_paths"
  /\ {GraphEdge("a", "knows", "b", DefaultEdgeWeight),
      GraphEdge("b", "knows", "c", CategoryEdgeWeight),
      GraphEdge("c", "knows", "a", DefaultEdgeWeight),
      GraphEdge("c", "knows", "c", DefaultEdgeWeight)} \subseteq edges
  /\ \E k \in DOMAIN resp.results :
       /\ resp.results[k].distance >= 2
       /\ resp.results[k].weight < DefaultEdgeWeight

\* C12: no path returned by find_paths is longer than min(max_depth, 3), and
\* a call with max_depth above 3 returns what the call with max_depth = 3
\* returns
C12_DepthClamped ==
  resp.op \in {"find_paths", "graph_paths"} =>
    /\ \A k \in DOMAIN resp.results :
         resp.results[k].distance <= Min(resp.request.depth, MaxPathDepth)
    /\ resp.request.depth > MaxPathDepth =>
         \E rows \in RowOrders(edges) :
           resp.results = find_paths(rows, resp.request.entity, resp.request.target,
                                     MaxPathDepth, DefaultMaxPaths)

\* find_paths was called with max_depth = 4 from a over the chain
\* a - b - c - d - e and returned a path of three hops
C12_Witness ==
  /\ resp.op = "find_paths"
  /\ resp.request.depth > MaxPathDepth
  /\ resp.request.entity = "a"
  /\ {GraphEdge("a", "knows", "b", DefaultEdgeWeight),
      GraphEdge("b", "knows", "c", CategoryEdgeWeight),
      GraphEdge("c", "knows", "d", CategoryEdgeWeight),
      GraphEdge("d", "knows", "e", DefaultEdgeWeight)} \subseteq edges
  /\ \E k \in DOMAIN resp.results : resp.results[k].distance = MaxPathDepth

\* the entities within n hops of the entities of S
RECURSIVE Reach(_, _, _)
Reach(g, S, n) ==
  IF n = 0 THEN S
  ELSE Reach(g, S \cup {e.object : e \in {x \in g : x.subject \in S}}
                   \cup {e.subject : e \in {x \in g : x.object \in S}}, n - 1)

\* the edges a breadth-first search from entity visits within depth hops
BfsEdges(g, entity, depth) ==
  {e \in g : e.subject \in Reach(g, {entity}, depth - 1)
             \/ e.object \in Reach(g, {entity}, depth - 1)}

\* C13: get_neighbors(entity, depth) returns the edges of the breadth-first
\* search limited to depth hops, each edge once, ordered by weight descending
C13_NeighborsAreBfsUnion ==
  resp.op = "graph_neighbors" =>
    /\ Range(resp.results) = BfsEdges(edges, resp.request.entity, resp.request.depth)
    /\ NoDuplicates(resp.results)
    /\ \A k \in 1..(Len(resp.results) - 1) :
         resp.results[k].weight >= resp.results[k + 1].weight

\* C14: in an EntityLookup result every item whose canonical subject is the
\* queried canonical entity has similarity 1.0, and every other item has 0.9
\* or 0.8
C14_ExactMatchScoresOne ==
  resp.op = "entity_lookup" =>
    \A k \in DOMAIN resp.scores :
      IF Canon(items[resp.scores[k].id].subject) = resolve_entity(resp.request.entity)
      THEN resp.scores[k].similarity = MaxConfidence
      ELSE resp.scores[k].similarity \in {SubjectSideSimilarity, ObjectSideSimilarity}

\* C15: an EntityLookup that is not cut by its limit returns every active
\* item whose subject is two hops from the queried entity, with similarity
\* 0.7, and never ahead of an item reached through a 1-hop edge
C15_TwoHopItemsReturned ==
  (resp.op = "entity_lookup" /\ resp.request.limit > Len(items)) =>
    LET canonical == resolve_entity(resp.request.entity)
        twoHop    == Reach(edges, {canonical}, 2) \ Reach(edges, {canonical}, 1)
    IN  /\ \A i \in DOMAIN items :
             (/\ items[i].status = "active"
              /\ items[i].meta_about = NoId
              /\ Canon(items[i].subject) \in twoHop)
             => \E k \in DOMAIN resp.scores :
                  /\ resp.scores[k].id = i
                  /\ resp.scores[k].similarity = MultiHopSimilarity
        /\ \A k, l \in DOMAIN resp.scores :
             (k < l /\ resp.scores[k].similarity = MultiHopSimilarity)
             => resp.scores[l].similarity <= MultiHopSimilarity

\* the counters of the weekly statistics
WeeklyCounters == {"decayed", "propagated", "archived", "compressed", "orphans_deleted"}

\* C16: a weekly maintenance run that directly follows another one, with no
\* change of the data and at the same time, returns zero for every step
\* counter
C16_SecondRunCountsNothing ==
  [][(/\ resp.op = "weekly"
      /\ resp.outcome = "ok"
      /\ resp.request.at = now
      /\ WeeklyMaintenance
      /\ resp'.outcome = "ok")
     => \A counter \in WeeklyCounters : resp'.stats[counter] = 0]_vars

\* C17: after any number of time-decay passes no active item has a
\* confidence below 0.1
C17_ActiveAboveFloor ==
  resp.op = "time_decay" =>
    \A i \in DOMAIN items :
      items[i].status = "active" => items[i].confidence >= MinConfidence

\* C17, as the pass behaves: no time-decay pass leaves an item with a
\* confidence below 0.1 unless the item had that confidence before the pass
\* (it was created with it and the pass did not write it back)
C17_DecayNeverWritesBelowFloor ==
  [][TimeDecayPass =>
       \A i \in DOMAIN items :
         \/ items'[i].confidence >= MinConfidence
         \/ items'[i].confidence = items[i].confidence]_vars

\* a time-decay pass has written the floor into an item older than a half
\* life
C17_Witness ==
  /\ resp.op = "time_decay"
  /\ resp.stats.decayed >= 1
  /\ \E i \in DOMAIN items :
       /\ items[i].status = "active"
       /\ items[i].created_at < now
       /\ items[i].confidence = MinConfidence

\* C18: when alpha (confidence 0.3) and beta (confidence 0.9) are active
\* items created now whose canonical subjects are joined by a graph edge, a
\* weekly maintenance run leaves alpha with a confidence strictly between 0.3
\* and 0.9
C18_AlphaBoostedBelowBeta ==
  [][\A alpha, beta \in DOMAIN items :
       (/\ WeeklyMaintenance
        /\ resp'.outcome = "ok"
        /\ items[alpha].status = "active" /\ items[beta].status = "active"
        /\ items[alpha].created_at = now /\ items[beta].created_at = now
        /\ items[alpha].confidence = 300 /\ items[beta].confidence = 900
        /\ \E e \in edges :
             {e.subject, e.object} = {Canon(items[alpha].subject), Canon(items[beta].subject)}
        /\ Canon(items[alpha].subject) # Canon(items[beta].subject))
       => /\ items'[alpha].confidence > 300
          /\ items'[alpha].confidence < 900]_vars

\* C19: when a step of a maintenance pipeline raises, the run still answers
\* with its statistics, the error is counted in an errors bucket of them and
\* the steps after the failing one have run
C19_StepErrorCountedAndSkipped ==
  (resp.op = "weekly" /\ resp.request.fail # NoneStr) =>
    /\ resp.outcome = "ok"
    /\ \E bucket \in DOMAIN resp.stats : bucket = "errors" /\ resp.stats[bucket] >= 1
    /\ \A step \in Range(WeeklySteps) :
         step # resp.request.fail => step \in Range(resp.log)

\* the lines of the text that belong to the block of a category
LinesOf(text, name) ==
  LET inBlock(l) == l.category = name
  IN  SelectSeq(text, inBlock)

\* C20: when max_chars is set, every category block of which the context
\* shows anything is shown in full: its heading, its summary and all of its
\* item lines, as the untruncated context has them
C20_BlocksShownInFull ==
  (resp.op = "context" /\ resp.text # <<>> /\ resp.request.max_chars # NoMaxChars) =>
    \A k \in DOMAIN resp.request.blocks :
      LET block == resp.request.blocks[k]
      IN  \/ LinesOf(resp.text, block.name) = <<>>
          \/ LinesOf(resp.text, block.name) = block.lines

\* a context that max_chars cut: one block is shown with its item lines,
\* the block after it is left out
C20_Witness ==
  /\ resp.op = "context"
  /\ resp.text # <<>>
  /\ resp.request.max_chars # NoMaxChars
  /\ Len(resp.results) >= 1
  /\ \E k \in DOMAIN resp.request.blocks :
       LinesOf(resp.text, resp.request.blocks[k].name) = <<>>

\* C21: resolve_entity is idempotent: resolving a canonical form returns it
\* unchanged, and no value of the alias table is a key of it with another
\* value
C21_ResolveIdempotent ==
  /\ resp.op = "resolve_entity" => ResolveEntityChars(resp.text) = resp.text
  /\ \A p \in BuiltinAliasTable : AliasGet(p[2]) = p[2]

\* a padded, capitalised alias key has been resolved to its value
C21_Witness ==
  /\ resp.op = "resolve_entity"
  /\ resp.text \in AliasValues
  /\ resp.request.text \notin AliasKeys \cup AliasValues

\* the most recent active items of a category, at most limit of them: rs
\* lists active items of the category without repetition, newest first, and
\* leaves out no active item of the category unless limit is reached
MostRecentActive(rs, category, limit) ==
  LET wanted == {i \in DOMAIN items :
                   /\ items[i].status = "active"
                   /\ (category # NoneStr => items[i].category = category)}
  IN  /\ Range(rs) \subseteq wanted
      /\ NoDuplicates(rs)
      /\ Len(rs) = Min(limit, Cardinality(wanted))
      /\ \A k \in 1..(Len(rs) - 1) : items[rs[k]].created_at >= items[rs[k + 1]].created_at
      /\ \A i \in wanted \ Range(rs), k \in DOMAIN rs :
           items[rs[k]].created_at >= items[i].created_at

\* C22: when the vector search of a semantic query finds nothing or the
\* embed/search call raises, the request succeeds with the intent
\* "SemanticSearch(fallback)" and the most recent active items, each with
\* similarity 0
C22_SemanticFallback ==
  (resp.op = "semantic_search" /\ (resp.request.raised \/ resp.request.found = 0)) =>
    /\ resp.outcome = "ok"
    /\ resp.request.intent = "SemanticSearch(fallback)"
    /\ MostRecentActive(resp.results, resp.request.category, resp.request.limit)
    /\ Len(resp.scores) = Len(resp.results)
    /\ \A k \in DOMAIN resp.scores : resp.scores[k] = 0

\* the embed/search call raised over a store with an active and an archived
\* item, and the active item came back
C22_Witness ==
  /\ resp.op = "semantic_search"
  /\ resp.request.raised
  /\ resp.results # <<>>
  /\ \E i \in DOMAIN items : items[i].status = "archived"

C24_EveryLoserReferenced ==
  resp.op = "extract" =>
    \A k \in DOMAIN resp.log :
      /\ items[resp.log[k].loser].status = "archived"
      /\ items[resp.log[k].winner].supersedes = resp.log[k].loser

\* C25: after the weekly job no two active items are left that have the same
\* canonical subject, the same predicate and objects that are equal or
\* contain one another, whatever their raw subjects
C25_CompressedByCanonicalSubject ==
  resp.op = "job" =>
    \A i, j \in DOMAIN items :
      /\ i # j
      /\ items[i].status = "active"
      /\ items[j].status = "active"
      /\ Canon(items[i].subject) = Canon(items[j].subject)
      => ~_items_similar(items[i], items[j])

\* C26: an item that another request archived while a weekly run was under
\* way is still archived when the run has committed
C26_OverlapKeepsArchived ==
  [][WeeklyFinish =>
       \A i \in DOMAIN items :
         items[i].status = "archived" => items'[i].status = "archived"]_vars

\* C27: find_paths without a target, with max_paths above the number of
\* paths, returns a path that ends at every entity other than the source
\* that is within min(max_depth, 3) edges of it, whatever their direction
C27_ReachableEntitiesHavePaths ==
  (resp.op = "find_paths" /\ resp.request.target = NoneStr) =>
    \A e \in Reach(edges, {resp.request.entity},
                   Min(resp.request.depth, MaxPathDepth)) \ {resp.request.entity} :
      \E k \in DOMAIN resp.results : resp.results[k].target = e

\* find_paths from a, without a target, over a graph in which c is reached
\* against the direction of its edge and d lies two edges away
C27_Witness ==
  /\ resp.op = "find_paths"
  /\ resp.request.target = NoneStr
  /\ resp.request.entity = "a"
  /\ {GraphEdge("c", "knows", "a", DefaultEdgeWeight),
      GraphEdge("c", "knows", "d", CategoryEdgeWeight)} \subseteq edges
  /\ GraphEdge("a", "knows", "b", DefaultEdgeWeight) \notin edges
  /\ {"c", "d"} \subseteq {resp.results[k].target : k \in DOMAIN resp.results}
  /\ Len(resp.results) < DefaultMaxPaths

\* C28: with no further ingest and POST /process called with one limit,
\* extraction is attempted, sooner or later, on every resource that is
\* pending
C28_EveryPendingResourceAttempted ==
  \A r \in 1..(MaxResources + 1) :
    (r \in Unextracted(resources, items))
      ~> (resp.op = "process" /\ \E k \in DOMAIN resp.results : resp.results[k] = r)

\* len() of the string that GET /context returned; the empty text stands
\* for "No memory context available."
ContextLen(text) == IF text = <<>> THEN NoContextLen ELSE TextLen(text)

\* C29: when max_chars is set, the text that get_tiered_context returns is
\* at most max_chars characters long
C29_ContextWithinMaxChars ==
  (resp.op = "context" /\ resp.request.max_chars # NoMaxChars) =>
    ContextLen(resp.text) <= resp.request.max_chars

\* C30: a hook invocation spawns a worker for a session only if at least
\* MIN_INTERVAL_SECONDS have passed since the last worker spawned for that
\* session and at least MIN_NEW_MESSAGES messages were added since the count
\* recorded at that spawn (or at the initialisation of the session); the
\* first invocation for a session spawns none
C30_SpawnThrottled ==
  (resp.op = "post_tool_hook" /\ resp.request.spawned) =>
    /\ ~resp.request.first
    /\ resp.request.elapsed # NoCapture => resp.request.elapsed >= MIN_INTERVAL_SECONDS
    /\ resp.request.new_messages >= MIN_NEW_MESSAGES

====
